---- MODULE Spec2Model ----
(***************************************************************************)
(* A model of the schema-driven PostgreSQL -> Neo4j migration pipeline of  *)
(* noah_converter: mapping engine (automatic rules and declarative         *)
(* loader), GenericMigrator and MigrationAuditor.                          *)
(*                                                                         *)
(* Names (table names, column names, labels, relationship types, property  *)
(* names) are sequences of one-character strings, so that the string       *)
(* operations of the mapping rules are computed as the code computes them. *)
(* Data values are pairs <<kind, payload>>.                                *)
(***************************************************************************)
EXTENDS Integers, Sequences, FiniteSets, TLC

VARIABLES
    engine,       \* analyzer output handed to MappingEngine (automatic path)
    doc,          \* declarative mapping document (yaml.safe_load result)
    db,           \* the PostgreSQL source: table name -> [columns, rows]
    schema,       \* GraphSchema handed to GenericMigrator / MigrationAuditor
    target,       \* the Neo4j store: nodes, edges, constraints, indexes
    pc,           \* position of the pipeline
    ni,           \* migrate_all: index of the node type being migrated
    ri,           \* migrate_all: index of the relationship being migrated
    bi,           \* number of batches of the current step already written
    acc,          \* `total` of the relationship step in progress
    node_counts,  \* migrate_all: node_counts dict
    rel_counts,   \* migrate_all: rel_counts dict
    err,          \* exception that ended the pipeline ("" when none)
    fault,        \* the target store may still reject a write (transient cause)
    log,          \* history: the store operations of the current migrate_all
    target0,      \* history: the target the current series of runs started from
    snap,         \* history: the target and the outcome before the current run
    report        \* AuditReport of run_audit

vars == <<engine, doc, db, schema, target, pc, ni, ri, bi, acc, node_counts,
          rel_counts, err, fault, log, target0, snap, report>>

-----------------------------------------------------------------------------
(* Bounds of the model *)

\* rows per batch (GenericMigrator.batch_size, 500 by default, scaled down)
BatchSize == 1
\* largest number of rows of the child table of the source
MaxRows == 2
\* largest number of rows of the parent table of the source
MaxParents == 2

-----------------------------------------------------------------------------
(* Strings as sequences of characters *)

LowerAlpha ==
    <<"a","b","c","d","e","f","g","h","i","j","k","l","m",
      "n","o","p","q","r","s","t","u","v","w","x","y","z">>

UpperAlpha ==
    <<"A","B","C","D","E","F","G","H","I","J","K","L","M",
      "N","O","P","Q","R","S","T","U","V","W","X","Y","Z">>

\* str.lower() on one character
LowerChar(c) ==
    IF \E i \in 1..26 : UpperAlpha[i] = c
    THEN LowerAlpha[CHOOSE i \in 1..26 : UpperAlpha[i] = c]
    ELSE c

\* str.upper() on one character
UpperChar(c) ==
    IF \E i \in 1..26 : LowerAlpha[i] = c
    THEN UpperAlpha[CHOOSE i \in 1..26 : LowerAlpha[i] = c]
    ELSE c

\* str.lower()
Lower(s) == [i \in 1..Len(s) |-> LowerChar(s[i])]

\* str.upper()
Upper(s) == [i \in 1..Len(s) |-> UpperChar(s[i])]

\* str.capitalize(): first character upper case, the rest lower case
Capitalize(s) ==
    [i \in 1..Len(s) |-> IF i = 1 THEN UpperChar(s[i]) ELSE LowerChar(s[i])]

\* `sub in s`
Contains(sub, s) ==
    \E i \in 0..(Len(s) - Len(sub)) :
        \A j \in 1..Len(sub) : s[i + j] = sub[j]

\* s.endswith(suf)
EndsWith(s, suf) ==
    /\ Len(suf) <= Len(s)
    /\ \A j \in 1..Len(suf) : s[Len(s) - Len(suf) + j] = suf[j]

\* s.rstrip(c): every trailing c removed
RECURSIVE RStrip(_, _)
RStrip(s, c) ==
    IF Len(s) > 0 /\ s[Len(s)] = c THEN RStrip(SubSeq(s, 1, Len(s) - 1), c) ELSE s

\* s.split(c): the list of the (possibly empty) pieces between occurrences of c
RECURSIVE Split(_, _)
Split(s, c) ==
    IF \E i \in 1..Len(s) : s[i] = c
    THEN LET k == CHOOSE i \in 1..Len(s) :
                      s[i] = c /\ \A j \in 1..(i - 1) : s[j] # c
         IN <<SubSeq(s, 1, k - 1)>> \o Split(SubSeq(s, k + 1, Len(s)), c)
    ELSE <<s>>

\* ''.join(parts)
RECURSIVE Join(_)
Join(parts) ==
    IF parts = <<>> THEN <<>> ELSE Head(parts) \o Join(Tail(parts))

\* the set of the elements of a sequence
Range(s) == {s[i] : i \in 1..Len(s)}

\* None for optional names and optional SQL text
None == <<>>

\* no MappingEngine was built (the declarative path)
NoEngine == <<>>

-----------------------------------------------------------------------------
(* Data values: <<kind, payload>>.  Kinds of source values: "null", "text", *)
(* "int", "float", "bool", "date", "ts" (timestamp), "geom" (geometry).     *)

Null == <<"null", 0>>

TextV(n) == <<"text", n>>

IntV(n) == <<"int", n>>

\* date.isoformat() of date number d, as a text code ("YYYY-MM-DD")
DateIso(d) == 100 + d

\* datetime.isoformat() of timestamp number t ("YYYY-MM-DDTHH:MM:SS")
TsIso(t) == 200 + t

\* values with a __float__ method: int, float, bool (Decimal is not drawn)
HasFloat(v) == v[1] \in {"int", "float", "bool"}

\* _clean: Python value -> Neo4j-safe value
Clean(v) ==
    CASE v[1] = "null" -> Null
      [] v[1] = "date" -> TextV(DateIso(v[2]))
      [] v[1] = "ts"   -> TextV(TsIso(v[2]))
      [] HasFloat(v)   -> <<"float", v[2]>>
      [] OTHER         -> v

\* dict lookup that yields null for a missing key (Cypher row.k, dict.get)
Get(d, k) == IF k \in DOMAIN d THEN d[k] ELSE Null

\* _row_to_props: clean every value and skip the nulls
RowToProps(row) ==
    [k \in {c \in DOMAIN row : Clean(row[c]) # Null} |-> Clean(row[k])]

\* _batches: the slices items[i : i + size]
Batches(items, size) ==
    [b \in 1..((Len(items) + size - 1) \div size) |->
        SubSeq(items, (b - 1) * size + 1,
               IF b * size < Len(items) THEN b * size ELSE Len(items))]

\* d[k] = v on a dict
DictSet(d, k, v) ==
    [x \in (DOMAIN d) \cup {k} |-> IF x = k THEN v ELSE d[x]]

\* d1 overridden by d2 (Cypher SET n += row)
Override(d1, d2) ==
    [x \in (DOMAIN d1) \cup (DOMAIN d2) |-> IF x \in DOMAIN d2 THEN d2[x] ELSE d1[x]]

-----------------------------------------------------------------------------
(* The Neo4j store, as the Cypher statements of the migrator use it *)

EmptyTarget == [nodes |-> <<>>, edges |-> <<>>, constraints |-> {}, indexes |-> {}]

\* Cypher equality of a stored property and a value: numbers by value,
\* anything else by type and value; null equals nothing
CypherEq(a, b) ==
    /\ a # Null
    /\ b # Null
    /\ IF a[1] \in {"int", "float"} /\ b[1] \in {"int", "float"}
       THEN a[2] = b[2]
       ELSE a = b

\* the nodes (indices) MATCH (n:label {key: val}) binds
MatchNodes(nodes, label, key, val) ==
    {i \in 1..Len(nodes) :
        nodes[i].label = label /\ CypherEq(Get(nodes[i].props, key), val)}

\* REQUIRE n.key IS UNIQUE holds of the nodes
UniqueOk(nodes, c) ==
    \A i, j \in 1..Len(nodes) :
        (/\ i # j
         /\ nodes[i].label = c[1]
         /\ nodes[j].label = c[1])
        => ~CypherEq(Get(nodes[i].props, c[2]), Get(nodes[j].props, c[2]))

ConstraintsOk(nodes, constraints) == \A c \in constraints : UniqueOk(nodes, c)

\* MERGE (n:label {k: row.k, ...}) SET n += row, for one row of the UNWIND
MergeNodeRow(nodes, label, keys, row) ==
    LET hit == {i \in 1..Len(nodes) :
                   /\ nodes[i].label = label
                   /\ \A k \in Range(keys) :
                         CypherEq(Get(nodes[i].props, k), Get(row, k))}
    IN IF hit = {}
       THEN Append(nodes, [label |-> label, props |-> row])
       ELSE [i \in 1..Len(nodes) |->
                IF i \in hit
                THEN [nodes[i] EXCEPT !.props = Override(nodes[i].props, row)]
                ELSE nodes[i]]

\* the whole UNWIND $rows of _build_merge_cypher
RECURSIVE MergeNodeBatch(_, _, _, _)
MergeNodeBatch(nodes, label, keys, rows) ==
    IF rows = <<>> THEN nodes
    ELSE MergeNodeBatch(MergeNodeRow(nodes, label, keys, Head(rows)),
                        label, keys, Tail(rows))

\* Neo4j refuses MERGE on a null property value
MergeNullKey(keys, rows) ==
    \E i \in 1..Len(rows) : \E k \in Range(keys) : Get(rows[i], k) = Null

\* an edge of the type between a and b, in the direction(s) the pattern allows
EdgeMatches(e, type, a, b, undirected) ==
    /\ e.type = type
    /\ \/ (e.from = a /\ e.to = b)
       \/ (undirected /\ e.from = b /\ e.to = a)

\* the SET clause of a computed relationship: r.p = row.p (null removes p)
SetEdgeProps(props, names, row) ==
    [p \in ((DOMAIN props) \ {q \in Range(names) : Get(row, q) = Null})
           \cup {q \in Range(names) : Get(row, q) # Null} |->
        IF p \in Range(names) THEN row[p] ELSE props[p]]

\* MERGE pattern [SET ...] for one bound pair (a, b)
MergeEdge_AlwaysCreate(edges, type, a, b, undirected, names, row) ==
    Append(edges, [type |-> type, from |-> a, to |-> b,
                   props |-> SetEdgeProps(<<>>, names, row)])

MergeEdge(edges, type, a, b, undirected, names, row) ==
    IF \E i \in 1..Len(edges) : EdgeMatches(edges[i], type, a, b, undirected)
    THEN [i \in 1..Len(edges) |->
             IF EdgeMatches(edges[i], type, a, b, undirected)
             THEN [edges[i] EXCEPT !.props = SetEdgeProps(edges[i].props, names, row)]
             ELSE edges[i]]
    ELSE Append(edges, [type |-> type, from |-> a, to |-> b,
                        props |-> SetEdgeProps(<<>>, names, row)])

\* the pairs (a, b) the two MATCH clauses bind for one row, in a fixed order
RECURSIVE SetToSeq(_)
SetToSeq(S) ==
    IF S = {} THEN <<>>
    ELSE LET x == CHOOSE y \in S : \A z \in S : y[1] < z[1] \/ (y[1] = z[1] /\ y[2] <= z[2])
         IN <<x>> \o SetToSeq(S \ {x})

RECURSIVE MergeEdgePairs(_, _, _, _, _, _)
MergeEdgePairs(edges, type, pairs, undirected, names, row) ==
    IF pairs = <<>> THEN edges
    ELSE MergeEdgePairs(
             MergeEdge(edges, type, Head(pairs)[1], Head(pairs)[2], undirected, names, row),
             type, Tail(pairs), undirected, names, row)

\* UNWIND $rows ... MATCH (a) MATCH (b) MERGE pattern [SET ...]
RECURSIVE MergeEdgeBatch(_, _, _, _, _, _, _)
MergeEdgeBatch(edges, nodes, rel, from_key, to_key, names, rows) ==
    IF rows = <<>> THEN edges
    ELSE LET row == Head(rows)
             A == MatchNodes(nodes, rel.from_label, from_key, row.from_id)
             B == MatchNodes(nodes, rel.to_label, to_key, row.to_id)
         IN MergeEdgeBatch(
                MergeEdgePairs(edges, rel.type, SetToSeq(A \X B),
                               rel.bidirectional /\ rel.source_type # "FK", names,
                               row.props),
                nodes, rel, from_key, to_key, names, Tail(rows))

-----------------------------------------------------------------------------
(* The graph schema model (mapping_engine/models.py) *)

\* Property(...)
Property(name, type, nullable, source_column, source_type, transformation) ==
    [name |-> name, type |-> type, nullable |-> nullable,
     source_column |-> source_column, source_type |-> source_type,
     transformation |-> transformation]

\* GraphSchema.get_node_by_label: the first node type with the label, or None
GetNodeByLabel(gs, label) ==
    IF \E i \in 1..Len(gs.nodes) : gs.nodes[i].label = label
    THEN <<gs.nodes[CHOOSE i \in 1..Len(gs.nodes) :
                        /\ gs.nodes[i].label = label
                        /\ \A j \in 1..(i - 1) : gs.nodes[j].label # label]>>
    ELSE None

NoSchema == [nodes |-> <<>>, relationships |-> <<>>]

-----------------------------------------------------------------------------
(* The PostgreSQL source, as the SQL of the migrator and the auditor uses it *)

\* the value of a SQL expression of the spatial handler on a row: null for a
\* null geometry, else a number (text for the WKT / GeoJSON renderings)
EvalExpr(e, r) ==
    LET g == Get(r, e[2])
    IN IF g = Null THEN Null
       ELSE IF e[1] \in {"ST_AsText({geom})", "ST_AsGeoJSON({geom})"}
            THEN TextV(400 + g[2])
            ELSE <<"float", g[2]>>

\* the column a select part reads
PartColumn(p) ==
    IF p.transformation # None THEN p.transformation[2]
    ELSE IF p.source_column # None /\ p.source_column # p.name THEN p.source_column
    ELSE p.name

\* the value of a select part on a row
PartValue(p, r) ==
    IF p.transformation # None THEN EvalExpr(p.transformation, r)
    ELSE r[PartColumn(p)]

\* PostgreSQL rejects the statement: unknown table or unknown column
SelectFails(table, cols) ==
    \/ table \notin DOMAIN db
    \/ \E c \in cols : c \notin db[table].columns

\* dict(r) for a row of the SELECT of _build_select: one key per property name
RECURSIVE RowDict(_, _)
RowDict(props, r) ==
    IF props = <<>> THEN <<>>
    ELSE LET p == props[Len(props)]
             rest == RowDict(SubSeq(props, 1, Len(props) - 1), r)
         IN DictSet(rest, p.name, PartValue(p, r))

\* migrate_node: rows = [_row_to_props(dict(r)) for r in cur.fetchall()]
NodeRows(node) ==
    [i \in 1..Len(db[node.source_table].rows) |->
        RowToProps(RowDict(node.properties, db[node.source_table].rows[i]))]

NodeSelectFails(node) ==
    SelectFails(node.source_table, {PartColumn(node.properties[i]) : i \in 1..Len(node.properties)})

\* WHERE to_id IS NOT NULL
RECURSIVE NotNullTo(_)
NotNullTo(s) ==
    IF s = <<>> THEN <<>>
    ELSE IF Head(s).to_id # Null THEN <<Head(s)>> \o NotNullTo(Tail(s))
    ELSE NotNullTo(Tail(s))

\* _migrate_rel_fk: the (from_id, to_id) pairs of source_table; rows with a
\* null to_id are dropped unless both columns are the same column
FkPairs(rel) ==
    LET rows == db[rel.source_table].rows
        all == [i \in 1..Len(rows) |->
                   [from_id |-> rows[i][rel.from_id_column],
                    to_id |-> rows[i][rel.to_id_column],
                    props |-> <<>>]]
    IN IF rel.from_id_column = rel.to_id_column THEN all ELSE NotNullTo(all)

\* |x|
Abs(x) == IF x < 0 THEN -x ELSE x

\* the radius of ST_DWithin in generate_neighbors_query, in km:
\* threshold_km when set (non-zero), else 10000 m
NeighborRadius(threshold_km) == IF threshold_km # 0 THEN threshold_km ELSE 10

\* distance of two geometries: unit cells on a line, cell g covers [g, g+1] km
GeomDistance(g1, g2) == IF Abs(g1[2] - g2[2]) <= 1 THEN 0 ELSE Abs(g1[2] - g2[2]) - 1

\* the result of the self-join of generate_neighbors_query:
\* q = <<"NEIGHBORS", table, geometry_column, id_column, threshold_km>>, over
\* the row pairs with a.id < b.id; a query written by hand in the mapping
\* document may join on a.id <> b.id instead: q = <<"NEAR", ...>>
RECURSIVE NeighborRowsFrom(_, _, _, _)
NeighborRowsFrom(q, rows, i, j) ==
    IF i > Len(rows) THEN <<>>
    ELSE IF j > Len(rows) THEN NeighborRowsFrom(q, rows, i + 1, 1)
    ELSE LET a == rows[i]
             b == rows[j]
             joined ==
                 /\ a[q[4]] # Null /\ b[q[4]] # Null
                 /\ IF q[1] = "NEIGHBORS" THEN a[q[4]][2] < b[q[4]][2]
                    ELSE a[q[4]][2] # b[q[4]][2]
                 /\ a[q[3]] # Null /\ b[q[3]] # Null
                 /\ GeomDistance(a[q[3]], b[q[3]]) <= NeighborRadius(q[5])
                 /\ (q[5] # 0 => Abs(a[q[3]][2] - b[q[3]][2]) <= q[5])
         IN (IF joined
             THEN <<[from_id |-> a[q[4]], to_id |-> b[q[4]],
                     props |-> [p \in {<<"d","i","s","t","a","n","c","e","_","k","m">>,
                                       <<"i","s","_","a","d","j","a","c","e","n","t">>} |->
                                  IF p = <<"d","i","s","t","a","n","c","e","_","k","m">>
                                  THEN <<"float", Abs(a[q[3]][2] - b[q[3]][2])>>
                                  ELSE <<"bool", IF Abs(a[q[3]][2] - b[q[3]][2]) = 1 THEN 1 ELSE 0>>]]>>
             ELSE <<>>) \o NeighborRowsFrom(q, rows, i, j + 1)

\* cur.execute(rel.computation_query); raw_rows = [dict(r) ...]
QueryRows(q) == NeighborRowsFrom(q, db[q[2]].rows, 1, 1)

QueryFails(q) == SelectFails(q[2], {q[3], q[4]})

\* _migrate_rel_computed: the cleaned rows: from_id, to_id and the declared
\* relationship properties the query returned, each cleaned
ComputedRows(rel) ==
    LET raw == QueryRows(rel.computation_query)
        names == {rel.properties[i].name : i \in 1..Len(rel.properties)}
    IN [i \in 1..Len(raw) |->
           [from_id |-> raw[i].from_id, to_id |-> raw[i].to_id,
            props |-> [p \in names \cap DOMAIN raw[i].props |-> Clean(raw[i].props[p])]]]

-----------------------------------------------------------------------------
(* GenericMigrator *)

\* the exception migrate_node raises before or at batch number b (1-based) on
\* the store's nodes, "" when the batch is written
NodeStepError(node, nodes, constraints, b) ==
    IF NodeSelectFails(node) THEN "QueryError"
    ELSE LET B == Batches(NodeRows(node), BatchSize)
         IN IF b > Len(B) THEN ""
            ELSE IF MergeNullKey(node.merge_keys, B[b]) THEN "MergeNullError"
            ELSE IF ~ConstraintsOk(MergeNodeBatch(nodes, node.label, node.merge_keys, B[b]),
                                   constraints)
                 THEN "ConstraintError"
            ELSE ""

\* the exception migrate_relationship raises before its first batch
RelPrecheck(gs, rel) ==
    IF rel.source_type = "FK" /\ (rel.from_id_column = None \/ rel.to_id_column = None)
        THEN "ValueError"
    ELSE IF rel.source_type # "FK" /\ rel.computation_query = None
        THEN "ValueError"
    ELSE IF GetNodeByLabel(gs, rel.from_label) = None \/ GetNodeByLabel(gs, rel.to_label) = None
        THEN "ValueError"
    ELSE IF GetNodeByLabel(gs, rel.from_label)[1].merge_keys = <<>>
            \/ GetNodeByLabel(gs, rel.to_label)[1].merge_keys = <<>>
        THEN "IndexError"
    ELSE IF rel.source_type = "FK"
            /\ SelectFails(rel.source_table, {rel.from_id_column, rel.to_id_column})
        THEN "QueryError"
    ELSE IF rel.source_type # "FK" /\ QueryFails(rel.computation_query)
        THEN "QueryError"
    ELSE ""

\* migrate_relationship: dispatch on source_type to the rows to write
RelRows(rel) == IF rel.source_type = "FK" THEN FkPairs(rel) ELSE ComputedRows(rel)

\* prop_names of the SET clause (an FK relationship sets nothing)
RelPropNames(rel) ==
    IF rel.source_type = "FK" THEN <<>>
    ELSE [i \in 1..Len(rel.properties) |-> rel.properties[i].name]

\* the edges after one batch of a relationship step
RelBatchEdges(gs, rel, store, batch) ==
    MergeEdgeBatch(store.edges, store.nodes, rel,
                   GetNodeByLabel(gs, rel.from_label)[1].merge_keys[1],
                   GetNodeByLabel(gs, rel.to_label)[1].merge_keys[1],
                   RelPropNames(rel), batch)

\* setup_schema: one uniqueness constraint per merge key, one index per
\* declared index property
SchemaConstraints(gs) ==
    UNION {{<<gs.nodes[i].label, key>> : key \in Range(gs.nodes[i].merge_keys)} :
              i \in 1..Len(gs.nodes)}

SchemaIndexes(gs) ==
    UNION {{<<gs.nodes[i].label, idx>> : idx \in Range(gs.nodes[i].indexes)} :
              i \in 1..Len(gs.nodes)}

\* migrate_all: the phase that follows, given what is left to do
NextPc_RelsFirst(nodesLeft, relsLeft) ==
    IF relsLeft THEN "rel" ELSE IF nodesLeft THEN "node" ELSE "done"

NextPc(nodesLeft, relsLeft) ==
    IF nodesLeft THEN "node" ELSE IF relsLeft THEN "rel" ELSE "done"

Event(op, idx) == [op |-> op, idx |-> idx]

-----------------------------------------------------------------------------
(* MappingConfigLoader (mapping_engine/config.py).  A document is the dict  *)
(* yaml.safe_load returns: records whose optional keys may be absent.       *)

\* the member names of PropertyType
PropertyTypeNames ==
    {<<"S","T","R","I","N","G">>, <<"I","N","T","E","G","E","R">>, <<"F","L","O","A","T">>, <<"B","O","O","L","E","A","N">>, <<"P","O","I","N","T">>, <<"D","A","T","E">>, <<"D","A","T","E","T","I","M","E">>,
     <<"L","I","S","T","_","S","T","R","I","N","G">>, <<"L","I","S","T","_","I","N","T","E","G","E","R">>, <<"L","I","S","T","_","F","L","O","A","T">>}

\* the member names of RelationshipSourceType
SourceTypeNames == {<<"F","O","R","E","I","G","N","_","K","E","Y">>, <<"C","O","M","P","U","T","E","D">>, <<"S","P","A","T","I","A","L">>}

\* RelationshipSourceType[name].value
SourceTypeValue(name) ==
    CASE name = <<"F","O","R","E","I","G","N","_","K","E","Y">> -> "FK"
      [] name = <<"C","O","M","P","U","T","E","D">>    -> "COMPUTED"
      [] name = <<"S","P","A","T","I","A","L">>     -> "SPATIAL"

\* cfg.get(key, default)
CfgGet(cfg, key, default) == IF key \in DOMAIN cfg THEN cfg[key] ELSE default

\* parse_property raises KeyError
PropertyRaises(c) ==
    \/ ~({"name", "type"} \subseteq DOMAIN c)
    \/ Upper(c.type) \notin PropertyTypeNames

\* parse_property
ParseProperty(c) ==
    Property(c.name, Upper(c.type), CfgGet(c, "nullable", TRUE),
             CfgGet(c, "source_column", None), CfgGet(c, "source_type", None),
             CfgGet(c, "transformation", None))

\* parse_node_type raises KeyError
NodeTypeRaises(c) ==
    \/ ~({"properties", "label", "primary_property", "source_table"} \subseteq DOMAIN c)
    \/ \E i \in 1..Len(c.properties) : PropertyRaises(c.properties[i])

\* parse_node_type
ParseNodeType(c) ==
    [label |-> c.label,
     primary_property |-> c.primary_property,
     properties |-> [i \in 1..Len(c.properties) |-> ParseProperty(c.properties[i])],
     source_table |-> c.source_table,
     has_geometry |-> CfgGet(c, "has_geometry", FALSE),
     geometry_column |-> CfgGet(c, "geometry_column", None),
     indexes |-> CfgGet(c, "indexes", <<>>),
     merge_keys |-> CfgGet(c, "merge_keys", <<>>)]

\* parse_relationship_type raises KeyError
RelTypeRaises(c) ==
    \/ \E i \in 1..Len(CfgGet(c, "properties", <<>>)) : PropertyRaises(c.properties[i])
    \/ ~({"source_type", "type", "from_label", "to_label"} \subseteq DOMAIN c)
    \/ Upper(c.source_type) \notin SourceTypeNames

\* parse_relationship_type
ParseRelationshipType(c) ==
    [type |-> c.type,
     from_label |-> c.from_label,
     to_label |-> c.to_label,
     properties |-> [i \in 1..Len(CfgGet(c, "properties", <<>>)) |->
                        ParseProperty(c.properties[i])],
     source_type |-> SourceTypeValue(Upper(c.source_type)),
     source_table |-> CfgGet(c, "source_table", None),
     from_column |-> CfgGet(c, "from_column", None),
     to_column |-> CfgGet(c, "to_column", None),
     from_id_column |-> CfgGet(c, "from_id_column", None),
     to_id_column |-> CfgGet(c, "to_id_column", None),
     computation_query |-> CfgGet(c, "computation_query", None),
     bidirectional |-> CfgGet(c, "bidirectional", FALSE)]

\* load_graph_schema raises
LoadRaises(d) ==
    \/ \E i \in 1..Len(CfgGet(d, "nodes", <<>>)) : NodeTypeRaises(d.nodes[i])
    \/ \E i \in 1..Len(CfgGet(d, "relationships", <<>>)) : RelTypeRaises(d.relationships[i])

\* load_graph_schema
LoadGraphSchema(d) ==
    [nodes |-> [i \in 1..Len(CfgGet(d, "nodes", <<>>)) |-> ParseNodeType(d.nodes[i])],
     relationships |-> [i \in 1..Len(CfgGet(d, "relationships", <<>>)) |->
                           ParseRelationshipType(d.relationships[i])]]

-----------------------------------------------------------------------------
(* migrate_all as a sequence of store operations *)

Running == pc \in {"clear", "setup", "node", "rel"}

\* the exception leaves migrate_all: the run ends
Abort_KeepGoing(e) ==
    /\ pc' = pc
    /\ err' = e

Abort(e) ==
    /\ pc' = "failed"
    /\ err' = e

\* migrator.migrate_all(clear): a new run starts
StartMigrateAll ==
    /\ pc \in {"ready", "done", "failed"}
    /\ \E clear \in BOOLEAN : pc' = IF clear THEN "clear" ELSE "setup"
    /\ ni' = 1 /\ ri' = 1 /\ bi' = 0 /\ acc' = 0
    /\ node_counts' = <<>> /\ rel_counts' = <<>>
    /\ err' = ""
    /\ log' = <<>>
    /\ target0' = IF pc = "failed" THEN target0 ELSE target
    /\ snap' = [prev |-> pc, nodes |-> target.nodes, edges |-> target.edges]
    /\ UNCHANGED <<engine, doc, db, schema, target, fault, report>>

\* MATCH (n) DETACH DELETE n
Clear ==
    /\ pc = "clear"
    /\ target' = [target EXCEPT !.nodes = <<>>, !.edges = <<>>]
    /\ target0' = target'
    /\ log' = Append(log, Event("clear", 0))
    /\ pc' = "setup"
    /\ UNCHANGED <<engine, doc, db, schema, ni, ri, bi, acc, node_counts, rel_counts,
                   err, fault, snap, report>>

\* setup_schema(); a constraint cannot be created over nodes that violate it
SetupSchema ==
    /\ pc = "setup"
    /\ log' = Append(log, Event("setup", 0))
    /\ IF ConstraintsOk(target.nodes, SchemaConstraints(schema))
       THEN /\ target' = [target EXCEPT
                             !.constraints = @ \cup SchemaConstraints(schema),
                             !.indexes = @ \cup SchemaIndexes(schema)]
            /\ pc' = NextPc(Len(schema.nodes) >= 1, Len(schema.relationships) >= 1)
            /\ err' = err
       ELSE /\ Abort("ConstraintError")
            /\ UNCHANGED target
    /\ UNCHANGED <<engine, doc, db, schema, ni, ri, bi, acc, node_counts, rel_counts,
                   fault, target0, snap, report>>

\* migrate_node: one batch is written; after the last one the step returns
\* len(rows) and migrate_all goes on
MigrateNodeBatch ==
    /\ pc = "node"
    /\ LET node == schema.nodes[ni]
       IN /\ NodeStepError(node, target.nodes, target.constraints, bi + 1) = ""
          /\ LET rows == NodeRows(node)
                 B == Batches(rows, BatchSize)
                 last == bi + 1 >= Len(B)
             IN /\ target' = IF bi < Len(B)
                             THEN [target EXCEPT !.nodes =
                                      MergeNodeBatch(@, node.label, node.merge_keys, B[bi + 1])]
                             ELSE target
                /\ log' = (IF bi < Len(B) THEN Append(log, Event("node_write", ni)) ELSE log)
                          \o (IF last THEN <<Event("node_done", ni)>> ELSE <<>>)
                /\ bi' = IF last THEN 0 ELSE bi + 1
                /\ ni' = IF last THEN ni + 1 ELSE ni
                /\ node_counts' = IF last THEN DictSet(node_counts, node.label, Len(rows))
                                  ELSE node_counts
                /\ pc' = IF last
                         THEN NextPc(ni + 1 <= Len(schema.nodes), ri <= Len(schema.relationships))
                         ELSE pc
    /\ UNCHANGED <<engine, doc, db, schema, ri, acc, rel_counts, err, fault,
                   target0, snap, report>>

\* migrate_node raises: the query or the batch is rejected, or the store
\* fails the write; nothing of the batch is kept and migrate_all ends
MigrateNodeFail ==
    /\ pc = "node"
    /\ LET node == schema.nodes[ni]
           e == NodeStepError(node, target.nodes, target.constraints, bi + 1)
       IN \/ /\ e # ""
             /\ Abort(e)
             /\ fault' = fault
          \/ /\ e = ""
             /\ fault
             /\ bi < Len(Batches(NodeRows(node), BatchSize))
             /\ Abort("WriteError")
             /\ fault' = FALSE
    /\ UNCHANGED <<engine, doc, db, schema, target, ni, ri, bi, acc, node_counts,
                   rel_counts, log, target0, snap, report>>

\* migrate_relationship: one batch is written; after the last one the step
\* returns the number of relationships it created
MigrateRelBatch ==
    /\ pc = "rel"
    /\ LET rel == schema.relationships[ri]
       IN /\ RelPrecheck(schema, rel) = ""
          /\ LET rows == RelRows(rel)
                 B == Batches(rows, BatchSize)
                 last == bi + 1 >= Len(B)
                 edges == IF bi < Len(B)
                          THEN RelBatchEdges(schema, rel, target, B[bi + 1])
                          ELSE target.edges
                 total == acc + (Len(edges) - Len(target.edges))
             IN /\ target' = [target EXCEPT !.edges = edges]
                /\ log' = (IF bi < Len(B) THEN Append(log, Event("rel_write", ri)) ELSE log)
                          \o (IF last THEN <<Event("rel_done", ri)>> ELSE <<>>)
                /\ bi' = IF last THEN 0 ELSE bi + 1
                /\ ri' = IF last THEN ri + 1 ELSE ri
                /\ acc' = IF last THEN 0 ELSE total
                /\ rel_counts' = IF last THEN DictSet(rel_counts, rel.type, total)
                                 ELSE rel_counts
                /\ pc' = IF last
                         THEN NextPc(ni <= Len(schema.nodes), ri + 1 <= Len(schema.relationships))
                         ELSE pc
    /\ UNCHANGED <<engine, doc, db, schema, ni, node_counts, err, fault,
                   target0, snap, report>>

\* migrate_relationship raises: a missing field, an unknown label, a rejected
\* query, or the store fails the write
MigrateRelFail ==
    /\ pc = "rel"
    /\ LET rel == schema.relationships[ri]
           e == RelPrecheck(schema, rel)
       IN \/ /\ e # ""
             /\ Abort(e)
             /\ fault' = fault
          \/ /\ e = ""
             /\ fault
             /\ bi < Len(Batches(RelRows(rel), BatchSize))
             /\ Abort("WriteError")
             /\ fault' = FALSE
    /\ UNCHANGED <<engine, doc, db, schema, target, ni, ri, bi, acc, node_counts,
                   rel_counts, log, target0, snap, report>>

-----------------------------------------------------------------------------
(* MigrationAuditor (data_auditor/auditor.py, data_auditor/models.py) *)

\* sample_size of MigrationAuditor.__init__
SampleSize == 20

\* the cap on the properties compared per node: comparable_props[:10]
MaxComparable == 10

\* the cap on the recorded mismatch examples
MaxMismatches == 5

\* the percentage above which a node count mismatch is an error
ErrorPct == 5

\* the sample match rate below which a warning is raised
MatchRatePct == 95

\* text codes below 50 stand for digit strings, the others for words
IsDigits(n) == n < 50

\* str(datetime): 'YYYY-MM-DD HH:MM:SS', unlike the isoformat() of TsIso
TsStr(t) == 300 + t

\* str(v) as a text code
StrOf(v) ==
    CASE v[1] = "text"  -> v[2]
      [] v[1] = "int"   -> v[2]
      [] v[1] = "float" -> 500 + v[2]
      [] v[1] = "bool"  -> 700 + v[2]
      [] v[1] = "date"  -> DateIso(v[2])
      [] v[1] = "ts"    -> TsStr(v[2])
      [] OTHER          -> 800 + v[2]

\* isinstance(v, (int, float))
IsNumber(v) == v[1] \in {"int", "float", "bool"}

\* float(v) raises ValueError or TypeError
FloatRaises(v) == ~(IsNumber(v) \/ (v[1] = "text" /\ IsDigits(v[2])))

\* _values_match
ValuesMatch(neo4j_val, pg_val) ==
    IF neo4j_val = Null /\ pg_val = Null THEN TRUE
    ELSE IF neo4j_val = Null \/ pg_val = Null THEN FALSE
    ELSE IF /\ IsNumber(neo4j_val) \/ IsNumber(pg_val)
            /\ ~FloatRaises(neo4j_val)
            /\ ~FloatRaises(pg_val)
         THEN neo4j_val[2] = pg_val[2]
    ELSE StrOf(neo4j_val) = StrOf(pg_val)

\* NodeCountResult.match
NcMatch(nc) == nc.pg_count = nc.neo4j_count

\* NodeCountResult.diff with the operands exchanged
NcDiff_Reversed(nc) == nc.pg_count - nc.neo4j_count

\* NodeCountResult.diff
NcDiff(nc) == nc.neo4j_count - nc.pg_count

\* NodeCountResult.diff_pct as the fraction <<numerator, denominator>>
NcDiffPct(nc) ==
    IF nc.pg_count = 0 THEN <<0, 1>> ELSE <<Abs(NcDiff(nc)) * 100, nc.pg_count>>

\* fraction > n
FracGt(f, n) == f[1] > n * f[2]

\* fraction < n
FracLt(f, n) == f[1] < n * f[2]

\* RelCountResult.match; pg_expected is None or <<count>>
RcMatch(rc) == rc.pg_expected = None \/ rc.neo4j_count = rc.pg_expected[1]

\* SampleCheckResult.match_rate as a fraction
MatchRate(sc) == IF sc.checked = 0 THEN <<0, 1>> ELSE <<sc.matched * 100, sc.checked>>

\* MATCH (n:label) RETURN count(n)
CountLabel(nodes, label) == Cardinality({i \in 1..Len(nodes) : nodes[i].label = label})

\* MATCH ()-[r:type]->() RETURN count(r)
CountType(edges, type) == Cardinality({i \in 1..Len(edges) : edges[i].type = type})

\* _audit_node_counts raises: SELECT COUNT(*) on an unknown table
AuditRaises(gs) == \E i \in 1..Len(gs.nodes) : gs.nodes[i].source_table \notin DOMAIN db

\* _audit_node_counts
AuditNodeCounts(gs, store) ==
    [i \in 1..Len(gs.nodes) |->
        [label |-> gs.nodes[i].label,
         source_table |-> gs.nodes[i].source_table,
         pg_count |-> Len(db[gs.nodes[i].source_table].rows),
         neo4j_count |-> CountLabel(store.nodes, gs.nodes[i].label)]]

\* the FK relationship whose expected count can be asked of PostgreSQL
HasPgExpected(rel) ==
    /\ rel.source_type = "FK"
    /\ rel.source_table # None
    /\ rel.from_id_column # None
    /\ rel.to_id_column # None

\* the COUNT(*) of a relationship fails; a failed statement leaves the one
\* transaction of the check aborted, so every later COUNT(*) fails as well
RECURSIVE PgCountFails(_, _)
PgCountFails(rels, i) ==
    IF i = 0 THEN FALSE
    ELSE \/ PgCountFails(rels, i - 1)
         \/ /\ HasPgExpected(rels[i])
            /\ SelectFails(rels[i].source_table, {rels[i].from_id_column, rels[i].to_id_column})

\* _audit_relationship_counts
AuditRelationshipCounts(gs, store) ==
    [i \in 1..Len(gs.relationships) |->
        LET rel == gs.relationships[i]
        IN [rel_type |-> rel.type,
            source_type |-> rel.source_type,
            neo4j_count |-> CountType(store.edges, rel.type),
            pg_expected |->
                IF HasPgExpected(rel) /\ ~PgCountFails(gs.relationships, i)
                THEN <<Cardinality({r \in 1..Len(db[rel.source_table].rows) :
                          /\ db[rel.source_table].rows[r][rel.from_id_column] # Null
                          /\ db[rel.source_table].rows[r][rel.to_id_column] # Null})>>
                ELSE None]]

\* _audit_property_coverage
AuditPropertyCoverage(gs, store) ==
    [i \in 1..Len(gs.nodes) |->
        LET node == gs.nodes[i]
            total == CountLabel(store.nodes, node.label)
        IN [label |-> node.label,
            total_nodes |-> total,
            properties |->
                [p \in 1..Len(node.properties) |->
                    [property_name |-> node.properties[p].name,
                     total_nodes |-> total,
                     populated |-> Cardinality({n \in 1..Len(store.nodes) :
                        /\ store.nodes[n].label = node.label
                        /\ Get(store.nodes[n].props, node.properties[p].name) # Null})]]]]

\* WHERE col = %s on a stored value and a key read from the target
SqlEq(v, key) ==
    CASE v = Null -> FALSE
      [] v[1] \in {"int", "float"} /\ key[1] \in {"int", "float"} -> v[2] = key[2]
      [] v[1] = "text" /\ key[1] = "text" -> v = key
      [] v[1] = "date" /\ key[1] = "text" -> key[2] = DateIso(v[2])
      [] v[1] = "ts" /\ key[1] = "text" -> key[2] = TsIso(v[2])
      [] OTHER -> FALSE

\* PostgreSQL rejects the lookup: unknown table or column, or a key that
\* cannot be compared with the column's type
LookupRaises(table, col, key) ==
    \/ SelectFails(table, {col})
    \/ LET ty == db[table].types[col]
       IN CASE ty = "text"    -> key[1] # "text"
            [] ty = "integer" -> ~(key[1] \in {"int", "float"} \/ (key[1] = "text" /\ IsDigits(key[2])))
            [] OTHER          -> key[1] # "text"

\* cur.fetchone(): the first row of the table with the key, <<row>> or None
LookupRow(table, col, key) ==
    LET rows == db[table].rows
        hit == {r \in 1..Len(rows) : SqlEq(rows[r][col], key)}
    IN IF hit = {} THEN None
       ELSE <<rows[CHOOSE r \in hit : \A q \in hit : r <= q]>>

\* the source column of the merge key
MergeKeyPgCol(node) ==
    LET merge_key == node.merge_keys[1]
        named == {p \in 1..Len(node.properties) :
                     node.properties[p].name = merge_key
                     /\ node.properties[p].source_column # None}
    IN IF named = {} THEN merge_key
       ELSE node.properties[CHOOSE p \in named : \A q \in named : p <= q].source_column

\* the directly mapped properties other than the merge key, capped
RECURSIVE ComparableProps(_, _)
ComparableProps(props, merge_key) ==
    IF props = <<>> THEN <<>>
    ELSE (IF /\ Head(props).source_column # None
             /\ Head(props).transformation = None
             /\ Head(props).name # merge_key
          THEN <<Head(props)>> ELSE <<>>) \o ComparableProps(Tail(props), merge_key)

\* the nodes (indices) of the label that hold a merge-key value
KeyedNodes(node, store) ==
    {n \in 1..Len(store.nodes) :
        /\ store.nodes[n].label = node.label
        /\ Get(store.nodes[n].props, node.merge_keys[1]) # Null}

\* random.sample(all_keys, min(sample_size, len(all_keys))): the possible picks
SamplePicks(node, store) ==
    LET keyed == KeyedNodes(node, store)
    IN IF Cardinality(keyed) <= SampleSize THEN {keyed}
       ELSE {S \in SUBSET keyed : Cardinality(S) = SampleSize}

\* the check of one sampled node: "raises", "missing", "match" or the number
\* of compared properties that differ
SampleOutcome(node, store, n) ==
    LET merge_key == node.merge_keys[1]
        key == store.nodes[n].props[merge_key]
        col == MergeKeyPgCol(node)
        found == MatchNodes(store.nodes, node.label, merge_key, key)
        neo4j_node == store.nodes[CHOOSE m \in found : \A q \in found : m <= q].props
        all == ComparableProps(node.properties, merge_key)
        props == SubSeq(all, 1, IF Len(all) < MaxComparable THEN Len(all) ELSE MaxComparable)
    IN IF LookupRaises(node.source_table, col, key) THEN <<"raises", 0>>
       ELSE IF LookupRow(node.source_table, col, key) = None THEN <<"missing", 0>>
       ELSE <<"checked",
              Cardinality({p \in 1..Len(props) :
                  ~ValuesMatch(Get(neo4j_node, props[p].name),
                               Get(LookupRow(node.source_table, col, key)[1],
                                   props[p].source_column))})>>

RECURSIVE SumOver(_, _)
SumOver(S, f) ==
    IF S = {} THEN 0
    ELSE LET x == CHOOSE y \in S : TRUE IN f[x] + SumOver(S \ {x}, f)

\* the SampleCheckResult of one node type for the picked nodes
SampleCheck(node, store, pick) ==
    LET out == [n \in pick |-> SampleOutcome(node, store, n)]
        differing == SumOver(pick, [n \in pick |-> out[n][2]])
    IN [label |-> node.label,
        sample_size |-> SampleSize,
        checked |-> Cardinality({n \in pick : out[n][1] = "checked"}),
        matched |-> Cardinality({n \in pick : out[n] = <<"checked", 0>>}),
        missing_in_neo4j |-> Cardinality({n \in pick : out[n][1] = "missing"}),
        mismatches |-> IF differing < MaxMismatches THEN differing ELSE MaxMismatches]

\* a node type _audit_samples reports on: it has a merge key and the target
\* holds a value of it
IsSampled(node, store) == node.merge_keys # <<>> /\ KeyedNodes(node, store) # {}

\* _audit_samples: one result per sampled node type, picks[i] the sample of
\* node type i
RECURSIVE AuditSamples(_, _, _, _)
AuditSamples(gs, store, picks, i) ==
    IF i > Len(gs.nodes) THEN <<>>
    ELSE (IF IsSampled(gs.nodes[i], store)
          THEN <<SampleCheck(gs.nodes[i], store, picks[i])>>
          ELSE <<>>) \o AuditSamples(gs, store, picks, i + 1)

\* an issue line: its leading severity word, what it is about, and whom
Issue(severity, kind, subject) == <<severity, kind, subject>>

RECURSIVE NodeCountIssues(_)
NodeCountIssues(ncs) ==
    IF ncs = <<>> THEN <<>>
    ELSE (IF ~NcMatch(Head(ncs))
          THEN <<Issue(IF FracGt(NcDiffPct(Head(ncs)), ErrorPct) THEN "ERROR" ELSE "WARN",
                       "count mismatch", Head(ncs).label)>>
          ELSE <<>>) \o NodeCountIssues(Tail(ncs))

RECURSIVE RelCountIssues(_)
RelCountIssues(rcs) ==
    IF rcs = <<>> THEN <<>>
    ELSE (IF Head(rcs).neo4j_count = 0
          THEN <<Issue("WARN", "has 0 relationships", Head(rcs).rel_type)>>
          ELSE IF Head(rcs).pg_expected # None /\ ~RcMatch(Head(rcs))
          THEN <<Issue("WARN", "count mismatch", Head(rcs).rel_type)>>
          ELSE <<>>) \o RelCountIssues(Tail(rcs))

RECURSIVE SampleIssues(_)
SampleIssues(scs) ==
    IF scs = <<>> THEN <<>>
    ELSE (IF FracLt(MatchRate(Head(scs)), MatchRatePct) /\ Head(scs).checked > 0
          THEN <<Issue("WARN", "sample match rate", Head(scs).label)>>
          ELSE <<>>) \o SampleIssues(Tail(scs))

\* _collect_issues
CollectIssues(ncs, rcs, scs) == NodeCountIssues(ncs) \o RelCountIssues(rcs) \o SampleIssues(scs)

\* issue.startswith("ERROR")
StartsWithError_Never(issue) == FALSE

StartsWithError(issue) == Head(issue) = "ERROR"

\* AuditReport.overall_status
OverallStatus(issues) ==
    IF issues = <<>> THEN "PASS"
    ELSE IF \E i \in 1..Len(issues) : StartsWithError(issues[i]) THEN "FAIL"
    ELSE "WARN"

\* the choices of one sample per node type, for the first i node types
RECURSIVE AllPicks(_, _, _)
AllPicks(gs, store, i) ==
    IF i = 0 THEN {<<>>}
    ELSE {Append(picks, S) :
             picks \in AllPicks(gs, store, i - 1),
             S \in IF IsSampled(gs.nodes[i], store)
                   THEN SamplePicks(gs.nodes[i], store) ELSE {{}}}

\* MigrationAuditor.run_audit
RunAudit ==
    /\ pc \in {"done", "failed"}
    /\ IF AuditRaises(schema)
       THEN /\ pc' = "audit_failed"
            /\ report' = report
       ELSE /\ pc' = "audited"
            /\ \E picks \in AllPicks(schema, target, Len(schema.nodes)) :
                  LET ncs == AuditNodeCounts(schema, target)
                      rcs == AuditRelationshipCounts(schema, target)
                      scs == AuditSamples(schema, target, picks, 1)
                  IN report' = [node_counts |-> ncs,
                                rel_counts |-> rcs,
                                property_coverage |-> AuditPropertyCoverage(schema, target),
                                sample_checks |-> scs,
                                issues |-> CollectIssues(ncs, rcs, scs)]
    /\ UNCHANGED <<engine, doc, db, schema, target, ni, ri, bi, acc, node_counts,
                   rel_counts, err, fault, log, target0, snap>>

-----------------------------------------------------------------------------
(* The source database and the mapping documents the behaviours start from: *)
(* the zipcodes / housing_projects tables of the repository's examples      *)

ZipTable == <<"z","i","p","c","o","d","e","s">>

ProjTable == <<"h","o","u","s","i","n","g","_","p","r","o","j","e","c","t","s">>

ZipCols == {<<"z","i","p","c","o","d","e">>, <<"b","o","r","o","u","g","h">>, <<"g","e","o","m","e","t","r","y">>}

ProjCols == {<<"p","r","o","j","e","c","t","_","i","d">>, <<"p","r","o","j","e","c","t","_","n","a","m","e">>, <<"p","o","s","t","c","o","d","e">>, <<"c","r","e","a","t","e","d","_","a","t">>}

\* m rows of zipcodes: primary key zipcode, adjacent unit cells as geometry
ZipTypes ==
    [c \in ZipCols |->
        CASE c = <<"z","i","p","c","o","d","e">>  -> "text"
          [] c = <<"b","o","r","o","u","g","h">>  -> "text"
          [] c = <<"g","e","o","m","e","t","r","y">> -> "geometry"]

ProjTypes ==
    [c \in ProjCols |->
        CASE c = <<"p","r","o","j","e","c","t","_","i","d">>   -> "integer"
          [] c = <<"p","r","o","j","e","c","t","_","n","a","m","e">> -> "text"
          [] c = <<"p","o","s","t","c","o","d","e">>     -> "text"
          [] c = <<"c","r","e","a","t","e","d","_","a","t">>   -> "timestamp"]

\* text codes of the words used as borough and project name
Borough == 51

ProjectName == 52

ZipRows(m) ==
    [i \in 1..m |->
        [c \in ZipCols |->
            CASE c = <<"z","i","p","c","o","d","e">>  -> TextV(i)
              [] c = <<"b","o","r","o","u","g","h">>  -> TextV(Borough)
              [] c = <<"g","e","o","m","e","t","r","y">> -> <<"geom", i>>]]

\* rows of housing_projects: primary key project_id, postcode as given
ProjRows(fk) ==
    [i \in 1..Len(fk) |->
        [c \in ProjCols |->
            CASE c = <<"p","r","o","j","e","c","t","_","i","d">>   -> IntV(i)
              [] c = <<"p","r","o","j","e","c","t","_","n","a","m","e">> -> TextV(ProjectName)
              [] c = <<"p","o","s","t","c","o","d","e">>     -> fk[i]
              [] c = <<"c","r","e","a","t","e","d","_","a","t">>   -> <<"ts", i>>]]

SourceDb(m, fk) ==
    [t \in {ZipTable, ProjTable} |->
        IF t = ZipTable THEN [columns |-> ZipCols, types |-> ZipTypes, rows |-> ZipRows(m)]
        ELSE [columns |-> ProjCols, types |-> ProjTypes, rows |-> ProjRows(fk)]]

\* postcode values: null, the key of the first parent row, and the key of
\* parent MaxParents (which references no row when there are fewer parents)
FkVals == {Null, TextV(1), TextV(MaxParents)}

SeqsUpTo(S, n) == UNION {[1..k -> S] : k \in 0..n}

SourceDbs == {SourceDb(m, fk) : m \in 0..MaxParents, fk \in SeqsUpTo(FkVals, MaxRows)}

\* every non-null postcode references an existing zipcodes row
FkValid(d) ==
    \A i \in 1..Len(d[ProjTable].rows) :
        LET v == d[ProjTable].rows[i][<<"p","o","s","t","c","o","d","e">>]
        IN v = Null \/ \E j \in 1..Len(d[ZipTable].rows) : d[ZipTable].rows[j][<<"z","i","p","c","o","d","e">>] = v

DocProp(name, type) == [name |-> name, type |-> type, source_column |-> name]

ZipNodeCfg ==
    [label |-> <<"Z","i","p","C","o","d","e">>, source_table |-> ZipTable, primary_property |-> <<"z","i","p","c","o","d","e">>,
     has_geometry |-> TRUE, geometry_column |-> <<"g","e","o","m","e","t","r","y">>,
     merge_keys |-> <<<<"z","i","p","c","o","d","e">>>>, indexes |-> <<<<"b","o","r","o","u","g","h">>>>,
     properties |-> <<DocProp(<<"z","i","p","c","o","d","e">>, <<"s","t","r","i","n","g">>), DocProp(<<"b","o","r","o","u","g","h">>, <<"s","t","r","i","n","g">>),
                      [name |-> <<"c","e","n","t","e","r","_","l","a","t">>, type |-> <<"f","l","o","a","t">>,
                       source_column |-> <<"g","e","o","m","e","t","r","y">>,
                       transformation |-> <<"ST_Y(ST_Centroid({geom}))", <<"g","e","o","m","e","t","r","y">>, 0>>]>>]

ProjNodeCfg ==
    [label |-> <<"H","o","u","s","i","n","g","P","r","o","j","e","c","t">>, source_table |-> ProjTable,
     primary_property |-> <<"p","r","o","j","e","c","t","_","i","d">>,
     merge_keys |-> <<<<"p","r","o","j","e","c","t","_","i","d">>>>,
     properties |-> <<DocProp(<<"p","r","o","j","e","c","t","_","i","d">>, <<"i","n","t","e","g","e","r">>), DocProp(<<"p","r","o","j","e","c","t","_","n","a","m","e">>, <<"s","t","r","i","n","g">>),
                      DocProp(<<"p","o","s","t","c","o","d","e">>, <<"s","t","r","i","n","g">>)>>]

LocatedInCfg ==
    [type |-> <<"L","O","C","A","T","E","D","_","I","N">>, from_label |-> <<"H","o","u","s","i","n","g","P","r","o","j","e","c","t">>, to_label |-> <<"Z","i","p","C","o","d","e">>,
     source_type |-> <<"f","o","r","e","i","g","n","_","k","e","y">>, source_table |-> ProjTable,
     from_id_column |-> <<"p","r","o","j","e","c","t","_","i","d">>, to_id_column |-> <<"p","o","s","t","c","o","d","e">>]

NeighborsCfg ==
    [type |-> <<"N","E","I","G","H","B","O","R","S">>, from_label |-> <<"Z","i","p","C","o","d","e">>, to_label |-> <<"Z","i","p","C","o","d","e">>,
     source_type |-> <<"s","p","a","t","i","a","l">>, bidirectional |-> TRUE,
     computation_query |-> <<"NEIGHBORS", ZipTable, <<"g","e","o","m","e","t","r","y">>, <<"z","i","p","c","o","d","e">>, 0>>,
     properties |-> <<[name |-> <<"d","i","s","t","a","n","c","e","_","k","m">>, type |-> <<"f","l","o","a","t">>],
                      [name |-> <<"i","s","_","a","d","j","a","c","e","n","t">>, type |-> <<"b","o","o","l","e","a","n">>]>>]

GoodDoc ==
    [nodes |-> <<ZipNodeCfg, ProjNodeCfg>>,
     relationships |-> <<LocatedInCfg, NeighborsCfg>>]

\* a node left in the target by an earlier, unrelated load
StaleTarget ==
    [EmptyTarget EXCEPT !.nodes =
        <<[label |-> <<"H","o","u","s","i","n","g","P","r","o","j","e","c","t">>,
           props |-> [k \in {<<"p","r","o","j","e","c","t","_","i","d">>} |-> <<"float", 1>>]]>>]

NoReport == [issues |-> <<>>, node_counts |-> <<>>, rel_counts |-> <<>>,
             sample_checks |-> <<>>, property_coverage |-> <<>>]

NoSnap == [prev |-> "new", nodes |-> <<>>, edges |-> <<>>]

-----------------------------------------------------------------------------
(* The declarative path: main.py migrate loads the mapping document and     *)
(* hands the schema to GenericMigrator                                      *)

LoadSchema ==
    /\ pc = "new"
    /\ doc # <<>>
    /\ IF LoadRaises(doc)
       THEN /\ pc' = "load_failed"
            /\ err' = "KeyError"
            /\ schema' = schema
       ELSE /\ pc' = "ready"
            /\ err' = err
            /\ schema' = LoadGraphSchema(doc)
    /\ UNCHANGED <<engine, doc, db, target, ni, ri, bi, acc, node_counts, rel_counts,
                   fault, log, target0, snap, report>>

InitCommon ==
    /\ schema = NoSchema
    /\ pc = "new"
    /\ ni = 1 /\ ri = 1 /\ bi = 0 /\ acc = 0
    /\ node_counts = <<>> /\ rel_counts = <<>>
    /\ err = ""
    /\ log = <<>>
    /\ target0 = EmptyTarget
    /\ snap = NoSnap
    /\ report = NoReport

Init ==
    /\ InitCommon
    /\ engine = NoEngine
    /\ doc = GoodDoc
    /\ db \in SourceDbs
    /\ target \in {EmptyTarget, StaleTarget}
    /\ fault = TRUE

Migrate ==
    \/ StartMigrateAll
    \/ Clear
    \/ SetupSchema
    \/ MigrateNodeBatch
    \/ MigrateNodeFail
    \/ MigrateRelBatch
    \/ MigrateRelFail

Next ==
    \/ LoadSchema
    \/ Migrate
    \/ RunAudit

Spec == Init /\ [][Next]_vars

-----------------------------------------------------------------------------
(* Properties of migrate_all *)

\* the run in progress was started with clear=False
NoClear(l) == \A i \in 1..Len(l) : l[i].op # "clear"

\* migrate_all from a store, never interrupted: every node type, then every
\* relationship type, each over all of its rows
RECURSIVE FullNodes(_, _, _)
FullNodes(gs, nodes, i) ==
    IF i > Len(gs.nodes) THEN nodes
    ELSE FullNodes(gs,
                   MergeNodeBatch(nodes, gs.nodes[i].label, gs.nodes[i].merge_keys,
                                  NodeRows(gs.nodes[i])),
                   i + 1)

RECURSIVE FullEdges(_, _, _, _)
FullEdges(gs, nodes, edges, i) ==
    IF i > Len(gs.relationships) THEN edges
    ELSE FullEdges(gs, nodes,
                   RelBatchEdges(gs, gs.relationships[i],
                                 [nodes |-> nodes, edges |-> edges],
                                 RelRows(gs.relationships[i])),
                   i + 1)

FullRun(gs, store) ==
    [nodes |-> FullNodes(gs, store.nodes, 1),
     edges |-> FullEdges(gs, FullNodes(gs, store.nodes, 1), store.edges, 1)]

RerunDone == pc = "done" /\ snap.prev = "done" /\ NoClear(log)

\* C1: when migrate_all(clear=False) completes after a completed migrate_all
\* over the same source, the target holds as many nodes of every label and as
\* many edges of every relationship type as when the second run started, and
\* as many nodes and edges in all: nothing was duplicated.
C1_RerunKeepsCounts ==
    RerunDone =>
        /\ \A i \in 1..Len(schema.nodes) :
              CountLabel(target.nodes, schema.nodes[i].label)
                  = CountLabel(snap.nodes, schema.nodes[i].label)
        /\ \A i \in 1..Len(schema.relationships) :
              CountType(target.edges, schema.relationships[i].type)
                  = CountType(snap.edges, schema.relationships[i].type)
        /\ Len(target.nodes) = Len(snap.nodes)
        /\ Len(target.edges) = Len(snap.edges)

C1_Witness ==
    /\ RerunDone
    /\ CountType(target.edges, <<"L","O","C","A","T","E","D","_","I","N">>) >= 2
    /\ CountType(target.edges, <<"N","E","I","G","H","B","O","R","S">>) >= 1
    /\ Len(db[ProjTable].rows) > BatchSize

\* position of a step in migrate_all
Rank(e) ==
    CASE e.op = "clear" -> 0
      [] e.op = "setup" -> 1
      [] e.op \in {"node_write", "node_done"} -> 2
      [] OTHER -> 3

\* C5: in every run the clear, if any, is the first operation; setup_schema
\* precedes every node write; every node type is completely migrated before
\* the first relationship write; node types and relationship types are
\* processed in schema order.
C5_StepOrder ==
    /\ \A i, j \in 1..Len(log) :
          i < j => /\ Rank(log[i]) <= Rank(log[j])
                   /\ Rank(log[i]) = Rank(log[j]) => log[i].idx <= log[j].idx
    /\ \A j \in 1..Len(log) :
          /\ log[j].op = "clear" => j = 1
          /\ log[j].op = "node_write" => \E i \in 1..(j - 1) : log[i].op = "setup"
          /\ log[j].op = "rel_write" =>
                \A n \in 1..Len(schema.nodes) :
                    \E i \in 1..(j - 1) : log[i] = Event("node_done", n)

C5_Witness ==
    /\ pc = "done"
    /\ Len(log) >= 2
    /\ log[1].op = "clear"
    /\ log[2].op = "setup"
    /\ \E j \in 1..Len(log) : log[j] = Event("node_write", 2)
    /\ \E j \in 1..Len(log) : log[j] = Event("rel_write", 2)

Recovered == pc = "done" /\ snap.prev = "failed" /\ NoClear(log)

\* C6: the step that raises ends the run and writes nothing, so what the
\* batches before it wrote stays; nothing more is written or attempted until
\* migrate_all is called again; and when a later migrate_all(clear=False)
\* completes, the nodes and edges of the target are those of a run from the
\* same start that was never interrupted.
C6_FailStopsAndRerunConverges ==
    /\ [](Recovered =>
            /\ target.nodes = FullRun(schema, target0).nodes
            /\ target.edges = FullRun(schema, target0).edges)
    /\ [][(err = "" /\ err' # "") =>
            (pc' \in {"failed", "load_failed"} /\ target' = target /\ log' = log)]_vars
    /\ [][pc = "failed" =>
            ((target' = target /\ log' = log) \/ (pc' \in {"clear", "setup"} /\ log' = <<>>))]_vars

C6_Witness ==
    /\ Recovered
    /\ Len(snap.nodes) > Len(target0.nodes)
    /\ Len(target.nodes) > Len(snap.nodes)
    /\ Len(target.edges) >= 2

-----------------------------------------------------------------------------
(* Mapping documents as a user may write them: the document above, with a   *)
(* timestamp column mapped, with one key left out, or without the          *)
(* foreign-key relationship                                               *)

\* the dict without one key
Without(cfg, key) == [k \in (DOMAIN cfg) \ {key} |-> cfg[k]]

\* the document with node i replaced
WithNode(d, i, cfg) == [d EXCEPT !.nodes[i] = cfg]

\* the document with relationship i replaced
WithRel(d, i, cfg) == [d EXCEPT !.relationships[i] = cfg]

DocVariants ==
    {GoodDoc,
     WithNode(GoodDoc, 2, [ProjNodeCfg EXCEPT !.properties =
                              Append(ProjNodeCfg.properties, DocProp(<<"c","r","e","a","t","e","d","_","a","t">>, <<"d","a","t","e","t","i","m","e">>))]),
     WithNode(GoodDoc, 2, Without(ProjNodeCfg, "merge_keys")),
     WithNode(GoodDoc, 2, Without(ProjNodeCfg, "label")),
     WithRel(GoodDoc, 1, Without(LocatedInCfg, "source_table")),
     WithRel(GoodDoc, 1, Without(LocatedInCfg, "from_id_column")),
     WithRel(GoodDoc, 1, Without(LocatedInCfg, "to_id_column")),
     WithRel(GoodDoc, 2, Without(NeighborsCfg, "computation_query")),
     [GoodDoc EXCEPT !.relationships = <<NeighborsCfg>>]}

InitDoc ==
    /\ InitCommon
    /\ engine = NoEngine
    /\ doc \in DocVariants
    /\ db \in {d \in SourceDbs : FkValid(d)}
    /\ target = EmptyTarget
    /\ fault \in BOOLEAN

SpecDoc == InitDoc /\ [][Next]_vars

\* every relationship type of the schema has an edge in the target
AllTypesPresent ==
    \A i \in 1..Len(schema.relationships) :
        CountType(target.edges, schema.relationships[i].type) > 0

\* C3: after migrate_all completed on an empty target from a source whose
\* foreign-key values all reference existing rows, run_audit with the same
\* schema reports PASS.  Stated for the runs that left at least one edge of
\* every relationship type, where no warning about an empty type is due.
C3_AuditPasses ==
    (pc = "audited" /\ err = "" /\ FkValid(db) /\ AllTypesPresent)
        => OverallStatus(report.issues) = "PASS"

\* a foreign_key relationship without source_table, from_id_column or
\* to_id_column, or a computed / spatial one without computation_query
LacksVariantField(d) ==
    \E i \in 1..Len(d.relationships) :
        LET c == d.relationships[i]
        IN IF Upper(c.source_type) = <<"F","O","R","E","I","G","N","_","K","E","Y">>
           THEN ~({"source_table", "from_id_column", "to_id_column"} \subseteq DOMAIN c)
           ELSE "computation_query" \notin DOMAIN c

\* C4: a mapping document that lacks a variant-specific relationship field is
\* rejected before any migration step: when the failure is reported the
\* target holds no constraint, index, node or edge.
C4_RejectedBeforeWrites ==
    (LacksVariantField(doc) /\ err \notin {"", "WriteError"}) => target = EmptyTarget

\* C7: every node type of a schema handed to the migrator or the auditor has
\* at least one merge key.
C7_MergeKeysPresent ==
    pc \in {"clear", "setup", "node", "rel", "done", "failed", "audited"} =>
        \A i \in 1..Len(schema.nodes) : schema.nodes[i].merge_keys # <<>>

-----------------------------------------------------------------------------
(* The automatic path: MappingRules, SpatialDataHandler, MappingEngine.     *)
(* A table is [name, columns, primary_key, foreign_keys]; primary_key is    *)
(* [shape, columns] with shape "none" (None), "list" (a list of column      *)
(* names, as the unit tests build it) or "PrimaryKey" (the dataclass the    *)
(* SchemaAnalyzer builds).  The tables dict is the sequence of its values.  *)

\* MappingRules.TYPE_MAPPING, in dict order
TYPE_MAPPING ==
    <<<<<<"i","n","t","e","g","e","r">>, <<"I","N","T","E","G","E","R">>>>, <<<<"b","i","g","i","n","t">>, <<"I","N","T","E","G","E","R">>>>, <<<<"s","m","a","l","l","i","n","t">>, <<"I","N","T","E","G","E","R">>>>,
      <<<<"n","u","m","e","r","i","c">>, <<"F","L","O","A","T">>>>, <<<<"d","e","c","i","m","a","l">>, <<"F","L","O","A","T">>>>, <<<<"r","e","a","l">>, <<"F","L","O","A","T">>>>,
      <<<<"d","o","u","b","l","e"," ","p","r","e","c","i","s","i","o","n">>, <<"F","L","O","A","T">>>>, <<<<"m","o","n","e","y">>, <<"F","L","O","A","T">>>>,
      <<<<"v","a","r","c","h","a","r">>, <<"S","T","R","I","N","G">>>>, <<<<"c","h","a","r">>, <<"S","T","R","I","N","G">>>>, <<<<"t","e","x","t">>, <<"S","T","R","I","N","G">>>>,
      <<<<"b","o","o","l","e","a","n">>, <<"B","O","O","L","E","A","N">>>>, <<<<"d","a","t","e">>, <<"D","A","T","E">>>>, <<<<"t","i","m","e","s","t","a","m","p">>, <<"D","A","T","E","T","I","M","E">>>>,
      <<<<"t","i","m","e","s","t","a","m","p","t","z">>, <<"D","A","T","E","T","I","M","E">>>>, <<<<"g","e","o","m","e","t","r","y">>, <<"S","T","R","I","N","G">>>>, <<<<"g","e","o","g","r","a","p","h","y">>, <<"S","T","R","I","N","G">>>>>>

\* table_to_node_label
table_to_node_label(table_name) ==
    LET parts == Split(RStrip(table_name, "s"), "_")
    IN Join([i \in 1..Len(parts) |-> Capitalize(parts[i])])

\* column_to_property_name
column_to_property_name(column_name) == Lower(column_name)

\* s.replace('[]', '')
RECURSIVE RemoveBrackets(_)
RemoveBrackets(s) ==
    IF Len(s) < 2 THEN s
    ELSE IF s[1] = "[" /\ s[2] = "]" THEN RemoveBrackets(SubSeq(s, 3, Len(s)))
    ELSE <<s[1]>> \o RemoveBrackets(Tail(s))

\* s.strip()
RECURSIVE Strip(_)
Strip(s) ==
    IF s # <<>> /\ s[1] = " " THEN Strip(Tail(s))
    ELSE IF s # <<>> /\ s[Len(s)] = " " THEN Strip(SubSeq(s, 1, Len(s) - 1))
    ELSE s

\* postgres_type_to_neo4j_type
postgres_type_to_neo4j_type(pg_type) ==
    LET pg_type_lower == Lower(pg_type)
        base_type == Strip(RemoveBrackets(pg_type_lower))
        hits == {i \in 1..Len(TYPE_MAPPING) : Contains(TYPE_MAPPING[i][1], pg_type_lower)}
    IN IF Contains(<<"[", "]">>, pg_type_lower)
       THEN IF base_type \in {<<"i","n","t","e","g","e","r">>, <<"b","i","g","i","n","t">>, <<"s","m","a","l","l","i","n","t">>} THEN <<"L","I","S","T","_","I","N","T","E","G","E","R">>
            ELSE IF base_type \in {<<"n","u","m","e","r","i","c">>, <<"d","e","c","i","m","a","l">>, <<"r","e","a","l">>, <<"d","o","u","b","l","e"," ","p","r","e","c","i","s","i","o","n">>}
                 THEN <<"L","I","S","T","_","F","L","O","A","T">>
            ELSE <<"L","I","S","T","_","S","T","R","I","N","G">>
       ELSE IF hits # {}
            THEN TYPE_MAPPING[CHOOSE i \in hits : \A j \in hits : i <= j][2]
       ELSE <<"S","T","R","I","N","G">>

\* column_to_property
column_to_property(column) ==
    Property(column_to_property_name(column.name),
             postgres_type_to_neo4j_type(column.data_type),
             column.is_nullable, column.name, column.data_type, None)

\* the first element of a sequence that is in S, <<x>> or None
First(s, S) ==
    IF \E i \in 1..Len(s) : s[i] \in S
    THEN <<s[CHOOSE i \in 1..Len(s) : s[i] \in S /\ \A j \in 1..(i - 1) : s[j] \notin S]>>
    ELSE None

\* table.primary_key[0] raises TypeError: a PrimaryKey object is truthy and
\* not subscriptable
PrimaryKeyRaises(table) == table.primary_key.shape = "PrimaryKey"

\* `if table.primary_key`
HasPrimaryKey(table) ==
    table.primary_key.shape = "list" /\ table.primary_key.columns # <<>>

\* detect_primary_property
detect_primary_property(table) ==
    LET idcol == First(table.columns,
                       {c \in Range(table.columns) :
                           EndsWith(c.name, <<"_","i","d">>) \/ c.name = <<"i","d">>})
    IN IF HasPrimaryKey(table) THEN column_to_property_name(table.primary_key.columns[1])
       ELSE IF idcol # None THEN column_to_property_name(idcol[1].name)
       ELSE IF table.columns # <<>> THEN column_to_property_name(table.columns[1].name)
       ELSE <<"i","d">>

\* a column of type geometry or geography
IsGeometry(column) == Lower(column.data_type) \in {<<"g","e","o","m","e","t","r","y">>, <<"g","e","o","g","r","a","p","h","y">>}

\* detect_geometry_column
detect_geometry_column(table) ==
    LET g == First(table.columns, {c \in Range(table.columns) : IsGeometry(c)})
    IN IF g = None THEN None ELSE g[1].name

\* the subsequence of the elements that are in S
RECURSIVE SelectSeq2(_, _)
SelectSeq2(s, S) ==
    IF s = <<>> THEN <<>>
    ELSE (IF Head(s) \in S THEN <<Head(s)>> ELSE <<>>) \o SelectSeq2(Tail(s), S)

\* the keywords of table_to_node_type that make a column an index candidate
IndexKeywords == {<<"n","a","m","e">>, <<"t","y","p","e">>, <<"s","t","a","t","u","s">>, <<"c","o","d","e">>, <<"d","a","t","e">>, <<"b","o","r","o","u","g","h">>, <<"c","i","t","y">>}

\* the cap on the index candidates: indexes[:5]
MaxIndexes == 5

\* table_to_node_type
table_to_node_type(table) ==
    LET cols == SelectSeq2(table.columns, {c \in Range(table.columns) : ~IsGeometry(c)})
        idx == SelectSeq2(table.columns,
                          {c \in Range(table.columns) :
                              \E k \in IndexKeywords : Contains(k, Lower(c.name))})
    IN [label |-> table_to_node_label(table.name),
        primary_property |-> detect_primary_property(table),
        properties |-> [i \in 1..Len(cols) |-> column_to_property(cols[i])],
        source_table |-> table.name,
        has_geometry |-> detect_geometry_column(table) # None,
        geometry_column |-> detect_geometry_column(table),
        indexes |-> [i \in 1..(IF Len(idx) < MaxIndexes THEN Len(idx) ELSE MaxIndexes) |->
                        column_to_property_name(idx[i].name)],
        merge_keys |-> <<detect_primary_property(table)>>]

\* generate_relationship_type with 'owner' tested before 'zip'
generate_relationship_type_OwnerFirst(from_label, to_label, fk_column) ==
    LET fk_lower == Lower(fk_column)
    IN IF Contains(<<"o","w","n","e","r">>, fk_lower) THEN <<"O","W","N","E","D","_","B","Y">>
       ELSE IF Contains(<<"z","i","p","c","o","d","e">>, fk_lower) \/ Contains(<<"z","i","p">>, fk_lower) THEN <<"L","O","C","A","T","E","D","_","I","N">>
       ELSE IF Contains(<<"p","r","o","j","e","c","t">>, fk_lower) THEN <<"H","A","S","_","P","R","O","J","E","C","T">>
       ELSE IF Contains(<<"p","a","r","e","n","t">>, fk_lower) THEN <<"C","H","I","L","D","_","O","F">>
       ELSE IF Contains(<<"m","a","n","a","g","e","r">>, fk_lower) \/ Contains(<<"m","a","n","a","g","e","d">>, fk_lower) THEN <<"M","A","N","A","G","E","D","_","B","Y">>
       ELSE <<"H","A","S","_">> \o Upper(to_label)

\* generate_relationship_type
generate_relationship_type(from_label, to_label, fk_column) ==
    LET fk_lower == Lower(fk_column)
    IN IF Contains(<<"z","i","p","c","o","d","e">>, fk_lower) \/ Contains(<<"z","i","p">>, fk_lower) THEN <<"L","O","C","A","T","E","D","_","I","N">>
       ELSE IF Contains(<<"o","w","n","e","r">>, fk_lower) THEN <<"O","W","N","E","D","_","B","Y">>
       ELSE IF Contains(<<"p","r","o","j","e","c","t">>, fk_lower) THEN <<"H","A","S","_","P","R","O","J","E","C","T">>
       ELSE IF Contains(<<"p","a","r","e","n","t">>, fk_lower) THEN <<"C","H","I","L","D","_","O","F">>
       ELSE IF Contains(<<"m","a","n","a","g","e","r">>, fk_lower) \/ Contains(<<"m","a","n","a","g","e","d">>, fk_lower) THEN <<"M","A","N","A","G","E","D","_","B","Y">>
       ELSE <<"H","A","S","_">> \o Upper(to_label)

\* tables.get(name) is a table
HasTable(tables, name) == \E i \in 1..Len(tables) : tables[i].name = name

\* foreign_key_to_relationship (for tables that are both present)
foreign_key_to_relationship(fk, from_table_name) ==
    [type |-> generate_relationship_type(table_to_node_label(from_table_name),
                                         table_to_node_label(fk.referenced_table),
                                         fk.column),
     from_label |-> table_to_node_label(from_table_name),
     to_label |-> table_to_node_label(fk.referenced_table),
     properties |-> <<>>,
     source_type |-> "FK",
     source_table |-> from_table_name,
     from_column |-> fk.column,
     to_column |-> fk.referenced_column,
     from_id_column |-> None,
     to_id_column |-> None,
     computation_query |-> None,
     bidirectional |-> FALSE]

\* the relationships of the foreign keys of tables i.., an FK to a table that
\* is not in the dict skipped (ValueError caught)
RECURSIVE FkRelationships(_, _, _)
FkRelationships(tables, i, k) ==
    IF i > Len(tables) THEN <<>>
    ELSE IF k > Len(tables[i].foreign_keys) THEN FkRelationships(tables, i + 1, 1)
    ELSE (IF HasTable(tables, tables[i].foreign_keys[k].referenced_table)
          THEN <<foreign_key_to_relationship(tables[i].foreign_keys[k], tables[i].name)>>
          ELSE <<>>) \o FkRelationships(tables, i, k + 1)

\* MappingRules.generate_graph_schema
generate_graph_schema(tables) ==
    [nodes |-> [i \in 1..Len(tables) |-> table_to_node_type(tables[i])],
     relationships |-> FkRelationships(tables, 1, 1)]

\* SpatialConfig()
DefaultSpatialConfig ==
    [compute_centroids |-> TRUE, preserve_wkt |-> TRUE, preserve_geojson |-> TRUE,
     compute_metrics |-> TRUE, compute_bbox |-> TRUE,
     neighbors_threshold_km |-> 0, target_srid |-> 0]

CORE_SPATIAL_PROPERTIES ==
    <<<<<<"c","e","n","t","e","r","_","l","a","t">>, "ST_Y(ST_Centroid({geom}))", <<"F","L","O","A","T">>>>,
      <<<<"c","e","n","t","e","r","_","l","o","n">>, "ST_X(ST_Centroid({geom}))", <<"F","L","O","A","T">>>>,
      <<<<"a","r","e","a","_","k","m","2">>, "ST_Area({geom}::geography) / 1000000.0", <<"F","L","O","A","T">>>>>>

OPTIONAL_SPATIAL_PROPERTIES ==
    <<<<<<"g","e","o","m","e","t","r","y","_","w","k","t">>, "ST_AsText({geom})", <<"S","T","R","I","N","G">>>>,
      <<<<"g","e","o","m","e","t","r","y","_","g","e","o","j","s","o","n">>, "ST_AsGeoJSON({geom})", <<"S","T","R","I","N","G">>>>,
      <<<<"p","e","r","i","m","e","t","e","r","_","k","m">>, "ST_Perimeter({geom}::geography) / 1000.0", <<"F","L","O","A","T">>>>,
      <<<<"b","b","o","x","_","x","m","i","n">>, "ST_XMin({geom})", <<"F","L","O","A","T">>>>,
      <<<<"b","b","o","x","_","y","m","i","n">>, "ST_YMin({geom})", <<"F","L","O","A","T">>>>,
      <<<<"b","b","o","x","_","x","m","a","x">>, "ST_XMax({geom})", <<"F","L","O","A","T">>>>,
      <<<<"b","b","o","x","_","y","m","a","x">>, "ST_YMax({geom})", <<"F","L","O","A","T">>>>>>

\* the Property of one entry of the two lists
SpatialProperty(entry, geometry_column, target_srid) ==
    Property(entry[1], entry[3], TRUE, geometry_column, None,
             <<entry[2], geometry_column, target_srid>>)

\* generate_spatial_properties with the bounding box under the metrics flag
generate_spatial_properties_BboxWithMetrics(geometry_column, include_wkt, include_geojson, include_metrics, include_bbox, target_srid) ==
    LET Include(prop_name) ==
            IF Contains(<<"w","k","t">>, prop_name) /\ include_wkt THEN TRUE
            ELSE IF Contains(<<"g","e","o","j","s","o","n">>, prop_name) /\ include_geojson THEN TRUE
            ELSE IF Contains(<<"p","e","r","i","m","e","t","e","r">>, prop_name) /\ include_metrics THEN TRUE
            ELSE Contains(<<"b","b","o","x">>, prop_name) /\ include_metrics
        opt == SelectSeq2(OPTIONAL_SPATIAL_PROPERTIES,
                          {e \in Range(OPTIONAL_SPATIAL_PROPERTIES) : Include(e[1])})
    IN [i \in 1..Len(CORE_SPATIAL_PROPERTIES) |->
           SpatialProperty(CORE_SPATIAL_PROPERTIES[i], geometry_column, target_srid)]
       \o [i \in 1..Len(opt) |-> SpatialProperty(opt[i], geometry_column, target_srid)]

\* generate_spatial_properties
generate_spatial_properties(geometry_column, include_wkt, include_geojson, include_metrics, include_bbox, target_srid) ==
    LET Include(prop_name) ==
            IF Contains(<<"w","k","t">>, prop_name) /\ include_wkt THEN TRUE
            ELSE IF Contains(<<"g","e","o","j","s","o","n">>, prop_name) /\ include_geojson THEN TRUE
            ELSE IF Contains(<<"p","e","r","i","m","e","t","e","r">>, prop_name) /\ include_metrics THEN TRUE
            ELSE Contains(<<"b","b","o","x">>, prop_name) /\ include_bbox
        opt == SelectSeq2(OPTIONAL_SPATIAL_PROPERTIES,
                          {e \in Range(OPTIONAL_SPATIAL_PROPERTIES) : Include(e[1])})
    IN [i \in 1..Len(CORE_SPATIAL_PROPERTIES) |->
           SpatialProperty(CORE_SPATIAL_PROPERTIES[i], geometry_column, target_srid)]
       \o [i \in 1..Len(opt) |-> SpatialProperty(opt[i], geometry_column, target_srid)]

\* MappingEngine._add_spatial_properties
add_spatial_properties(gs, cfg) ==
    IF ~cfg.compute_centroids THEN gs
    ELSE [gs EXCEPT !.nodes =
            [i \in 1..Len(gs.nodes) |->
                IF gs.nodes[i].has_geometry /\ gs.nodes[i].geometry_column # None
                THEN [gs.nodes[i] EXCEPT !.properties =
                        gs.nodes[i].properties \o
                        generate_spatial_properties(
                            gs.nodes[i].geometry_column, cfg.preserve_wkt,
                            cfg.preserve_geojson, cfg.compute_metrics,
                            cfg.compute_bbox, cfg.target_srid)]
                ELSE gs.nodes[i]]]

\* detect_spatial_tables: the id column of a table with a geometry column,
\* <<id_column>> or None
SpatialIdColumn(table) ==
    LET idcol == First(table.columns,
                       {c \in Range(table.columns) : Contains(<<"i","d">>, Lower(c.name))})
    IN IF detect_geometry_column(table) = None THEN None
       ELSE IF HasPrimaryKey(table) THEN <<table.primary_key.columns[1]>>
       ELSE IF idcol # None THEN <<idcol[1].name>>
       ELSE None

\* create_neighbors_relationship with the computation_query of
\* generate_neighbors_query
create_neighbors_relationship(from_label, table, threshold_km) ==
    [type |-> <<"N","E","I","G","H","B","O","R","S">>,
     from_label |-> from_label,
     to_label |-> from_label,
     properties |-> <<Property(<<"d","i","s","t","a","n","c","e","_","k","m">>, <<"F","L","O","A","T">>, TRUE, <<"d","i","s","t","a","n","c","e","_","k","m">>, None, None),
                      Property(<<"i","s","_","a","d","j","a","c","e","n","t">>, <<"B","O","O","L","E","A","N">>, TRUE, <<"i","s","_","a","d","j","a","c","e","n","t">>, None, None)>>,
     source_type |-> "SPATIAL",
     source_table |-> None,
     from_column |-> None,
     to_column |-> None,
     from_id_column |-> None,
     to_id_column |-> None,
     computation_query |-> <<"NEIGHBORS", table.name, detect_geometry_column(table),
                             SpatialIdColumn(table)[1], threshold_km>>,
     bidirectional |-> TRUE]

\* MappingEngine._add_spatial_relationships, from table i on
RECURSIVE add_spatial_relationships(_, _, _, _)
add_spatial_relationships(gs, tables, cfg, i) ==
    IF i > Len(tables) THEN gs
    ELSE add_spatial_relationships(
             IF SpatialIdColumn(tables[i]) # None
                /\ GetNodeByLabel(gs, table_to_node_label(tables[i].name)) # None
             THEN [gs EXCEPT !.relationships =
                     Append(@, create_neighbors_relationship(
                                   GetNodeByLabel(gs, table_to_node_label(tables[i].name))[1].label,
                                   tables[i], cfg.neighbors_threshold_km))]
             ELSE gs,
             tables, cfg, i + 1)

\* MappingEngine(tables, spatial_config).generate_graph_schema()
GenerateSchema ==
    /\ pc = "new"
    /\ engine # NoEngine
    /\ IF \E i \in 1..Len(engine.tables) : PrimaryKeyRaises(engine.tables[i])
       THEN /\ pc' = "gen_failed"
            /\ err' = "TypeError"
            /\ schema' = schema
       ELSE /\ pc' = "ready"
            /\ err' = err
            /\ schema' = add_spatial_relationships(
                             add_spatial_properties(generate_graph_schema(engine.tables),
                                                    engine.spatial_config),
                             engine.tables, engine.spatial_config, 1)
    /\ UNCHANGED <<engine, doc, db, target, ni, ri, bi, acc, node_counts, rel_counts,
                   fault, log, target0, snap, report>>

-----------------------------------------------------------------------------
(* The automatic path end to end: the analyzed tables of the source, the    *)
(* generated schema, migration and audit                                    *)

Column(name, data_type) == [name |-> name, data_type |-> data_type, is_nullable |-> TRUE]

\* table.primary_key in one of its three shapes
PrimaryKeyOf(shape, column) ==
    [shape |-> shape, columns |-> IF shape = "none" THEN <<>> ELSE <<column>>]

\* the tables of the source as analyzed: zipcodes (optionally with a stored
\* area_km2 column), optionally a second table named zipcode, and
\* housing_projects (optionally with its foreign key declared)
AutoTables(shape, withSingular, withArea, withFk) ==
    <<[name |-> ZipTable,
       columns |-> <<Column(<<"z","i","p","c","o","d","e">>, <<"v","a","r","c","h","a","r">>), Column(<<"b","o","r","o","u","g","h">>, <<"v","a","r","c","h","a","r">>)>>
                   \o (IF withArea THEN <<Column(<<"a","r","e","a","_","k","m","2">>, <<"n","u","m","e","r","i","c">>)>> ELSE <<>>)
                   \o <<Column(<<"g","e","o","m","e","t","r","y">>, <<"g","e","o","m","e","t","r","y">>)>>,
       primary_key |-> PrimaryKeyOf(shape, <<"z","i","p","c","o","d","e">>),
       foreign_keys |-> <<>>]>>
    \o (IF withSingular
        THEN <<[name |-> <<"z","i","p","c","o","d","e">>,
                columns |-> <<Column(<<"z","i","p","c","o","d","e">>, <<"v","a","r","c","h","a","r">>), Column(<<"b","o","r","o","u","g","h">>, <<"v","a","r","c","h","a","r">>)>>,
                primary_key |-> PrimaryKeyOf(shape, <<"z","i","p","c","o","d","e">>),
                foreign_keys |-> <<>>]>>
        ELSE <<>>)
    \o <<[name |-> ProjTable,
          columns |-> <<Column(<<"p","r","o","j","e","c","t","_","i","d">>, <<"i","n","t","e","g","e","r">>), Column(<<"p","r","o","j","e","c","t","_","n","a","m","e">>, <<"v","a","r","c","h","a","r">>),
                        Column(<<"p","o","s","t","c","o","d","e">>, <<"v","a","r","c","h","a","r">>),
                        Column(<<"c","r","e","a","t","e","d","_","a","t">>, <<"t","i","m","e","s","t","a","m","p"," ","w","i","t","h","o","u","t"," ","t","i","m","e"," ","z","o","n","e">>)>>,
          primary_key |-> PrimaryKeyOf(shape, <<"p","r","o","j","e","c","t","_","i","d">>),
          foreign_keys |-> IF withFk
                           THEN <<[column |-> <<"p","o","s","t","c","o","d","e">>, referenced_table |-> ZipTable,
                                   referenced_column |-> <<"z","i","p","c","o","d","e">>]>>
                           ELSE <<>>]>>

\* the source with the optional table and column present
AutoDb(base, withSingular, withArea) ==
    [t \in (DOMAIN base) \cup (IF withSingular THEN {<<"z","i","p","c","o","d","e">>} ELSE {}) |->
        IF t = <<"z","i","p","c","o","d","e">>
        THEN [columns |-> {<<"z","i","p","c","o","d","e">>, <<"b","o","r","o","u","g","h">>},
              types |-> [c \in {<<"z","i","p","c","o","d","e">>, <<"b","o","r","o","u","g","h">>} |-> "text"],
              rows |-> <<[c \in {<<"z","i","p","c","o","d","e">>, <<"b","o","r","o","u","g","h">>} |->
                            IF c = <<"z","i","p","c","o","d","e">> THEN TextV(1) ELSE TextV(Borough)]>>]
        ELSE IF t = ZipTable /\ withArea
        THEN [columns |-> base[t].columns \cup {<<"a","r","e","a","_","k","m","2">>},
              types |-> [c \in base[t].columns \cup {<<"a","r","e","a","_","k","m","2">>} |->
                            IF c = <<"a","r","e","a","_","k","m","2">> THEN "integer" ELSE base[t].types[c]],
              rows |-> [i \in 1..Len(base[t].rows) |->
                           [c \in base[t].columns \cup {<<"a","r","e","a","_","k","m","2">>} |->
                               IF c = <<"a","r","e","a","_","k","m","2">> THEN <<"float", i>> ELSE base[t].rows[i][c]]]]
        ELSE base[t]]

InitAuto ==
    /\ InitCommon
    /\ doc = <<>>
    /\ \E shape \in {"none", "list", "PrimaryKey"}, withSingular, withArea, withFk \in BOOLEAN :
          /\ engine = [tables |-> AutoTables(shape, withSingular, withArea, withFk),
                       spatial_config |-> DefaultSpatialConfig]
          /\ \E base \in {d \in SourceDbs : FkValid(d)} :
                db = AutoDb(base, withSingular, withArea)
    /\ target = EmptyTarget
    /\ fault \in BOOLEAN

NextAuto ==
    \/ GenerateSchema
    \/ Migrate
    \/ RunAudit

SpecAuto == InitAuto /\ [][NextAuto]_vars

\* the automatic path produced the schema
Generated == engine # NoEngine /\ pc \notin {"new", "gen_failed"}

LabelsDistinct ==
    \A i, j \in 1..Len(schema.nodes) : i # j => schema.nodes[i].label # schema.nodes[j].label

\* C2: for a source whose foreign keys all reference existing rows,
\* migrate_all runs the automatically generated schema without raising, and
\* when it returns, node_counts holds the number of source rows of every
\* label and every foreign-key relationship has one edge per source row with
\* a non-null foreign key.
C2_AutoSchemaMigrates ==
    (Generated /\ FkValid(db)) =>
        /\ pc = "failed" => err = "WriteError"
        /\ (pc = "done" /\ LabelsDistinct) =>
              /\ \A i \in 1..Len(schema.nodes) :
                    Get(node_counts, schema.nodes[i].label)
                        = Len(db[schema.nodes[i].source_table].rows)
              /\ \A i \in 1..Len(schema.relationships) :
                    schema.relationships[i].source_type = "FK" =>
                        CountType(target.edges, schema.relationships[i].type)
                            = Cardinality({r \in 1..Len(db[ProjTable].rows) :
                                              db[ProjTable].rows[r][<<"p","o","s","t","c","o","d","e">>] # Null})

\* C8: the labels of an automatically generated schema are pairwise
\* distinct, and get_node_by_label of the label derived from a table returns
\* the node type built from that table.
C8_AutoLabelsDistinct ==
    Generated =>
        /\ LabelsDistinct
        /\ \A i \in 1..Len(engine.tables) :
              GetNodeByLabel(schema, table_to_node_label(engine.tables[i].name))[1].source_table
                  = engine.tables[i].name

\* C9: no two properties of a node type of an automatically generated
\* schema, the appended spatial properties included, have the same name.
C9_AutoPropertyNamesDistinct ==
    Generated =>
        \A n \in 1..Len(schema.nodes) :
            \A i, j \in 1..Len(schema.nodes[n].properties) :
                i # j => schema.nodes[n].properties[i].name # schema.nodes[n].properties[j].name

\* the primary property stated for a table: the lower-cased first primary
\* key column, else the first column named id or ending in _id, else the
\* first column
StatedPrimary(t) ==
    LET ids == {i \in 1..Len(t.columns) :
                   t.columns[i].name = <<"i","d">> \/ EndsWith(t.columns[i].name, <<"_","i","d">>)}
    IN IF t.primary_key.columns # <<>> THEN Lower(t.primary_key.columns[1])
       ELSE IF ids # {} THEN Lower(t.columns[CHOOSE i \in ids : \A j \in ids : i <= j].name)
       ELSE Lower(t.columns[1].name)

\* the tables are as SchemaAnalyzer.analyze returns them
Analyzed ==
    /\ engine # NoEngine
    /\ \A i \in 1..Len(engine.tables) : engine.tables[i].primary_key.shape # "list"

\* C16: for tables as the analyzer returns them, generation does not raise
\* and every node type has the stated primary property as its
\* primary_property and as its single merge key.
C16_PrimaryPropertyOfAnalyzed ==
    (Analyzed /\ pc # "new") =>
        /\ pc # "gen_failed"
        /\ \A i \in 1..Len(engine.tables) :
              /\ schema.nodes[i].primary_property = StatedPrimary(engine.tables[i])
              /\ schema.nodes[i].merge_keys = <<StatedPrimary(engine.tables[i])>>

-----------------------------------------------------------------------------
(* The verdict of an audit as a function of the check results: the results  *)
(* are drawn from bounded sets and _collect_issues is applied to them       *)

\* node count checks per report
MaxNodeChecks == 1
\* largest source row count of a node count check
MaxCount == 40

\* source counts: none, one, and two sizes at which one row is 5% or less
PgCounts == {0, 1, MaxCount \div 2, MaxCount}

NodeCountResults ==
    {[label |-> <<"Z","i","p","C","o","d","e">>, source_table |-> ZipTable,
      pg_count |-> pg, neo4j_count |-> neo] :
        pg \in PgCounts, neo \in 0..(MaxCount + 1)}

NearResults == {nc \in NodeCountResults : Abs(nc.neo4j_count - nc.pg_count) <= 5}

RelCountResults ==
    {[rel_type |-> <<"L","O","C","A","T","E","D","_","I","N">>, source_type |-> "FK",
      neo4j_count |-> neo, pg_expected |-> exp] :
        neo \in 0..2, exp \in {None, <<1>>}}

SampleCheckResults ==
    {[label |-> <<"Z","i","p","C","o","d","e">>, sample_size |-> SampleSize,
      checked |-> c[1], matched |-> c[2], missing_in_neo4j |-> 0, mismatches |-> 0] :
        c \in {<<0, 0>>, <<1, 1>>, <<SampleSize, SampleSize - 1>>,
               <<SampleSize, SampleSize - 2>>}}

InitVerdict ==
    /\ engine = NoEngine /\ doc = <<>>
    /\ db = SourceDb(0, <<>>)
    /\ schema = NoSchema
    /\ target = EmptyTarget
    /\ pc = "collect"
    /\ ni = 1 /\ ri = 1 /\ bi = 0 /\ acc = 0
    /\ node_counts = <<>> /\ rel_counts = <<>>
    /\ err = ""
    /\ fault = FALSE
    /\ log = <<>>
    /\ target0 = EmptyTarget
    /\ snap = NoSnap
    /\ \E ncs \in SeqsUpTo(NearResults, MaxNodeChecks),
          rcs \in SeqsUpTo(RelCountResults, 1),
          scs \in SeqsUpTo(SampleCheckResults, 1) :
          report = [node_counts |-> ncs, rel_counts |-> rcs, property_coverage |-> <<>>,
                    sample_checks |-> scs, issues |-> <<>>]

\* issues = self._collect_issues(node_counts, rel_counts, samples)
CollectVerdict ==
    /\ pc = "collect"
    /\ report' = [report EXCEPT !.issues =
                     CollectIssues(report.node_counts, report.rel_counts,
                                   report.sample_checks)]
    /\ pc' = "audited"
    /\ UNCHANGED <<engine, doc, db, schema, target, ni, ri, bi, acc, node_counts,
                   rel_counts, err, fault, log, target0, snap>>

SpecVerdict == InitVerdict /\ [][CollectVerdict]_vars

\* a node count check whose counts differ by more than 5 % of the source count
ErrorMismatch(nc) ==
    /\ nc.pg_count # nc.neo4j_count
    /\ nc.pg_count > 0
    /\ Abs(nc.neo4j_count - nc.pg_count) * 100 > 5 * nc.pg_count

\* C10: overall_status is PASS exactly when the issue list is empty, FAIL
\* exactly when some node count check differs by more than 5 %, and WARN in
\* every other case.
C10_Verdict ==
    pc = "audited" =>
        LET status == OverallStatus(report.issues)
            failing == \E i \in 1..Len(report.node_counts) :
                           ErrorMismatch(report.node_counts[i])
        IN /\ status = "PASS" <=> report.issues = <<>>
           /\ status = "FAIL" <=> failing
           /\ status = "WARN" <=> (report.issues # <<>> /\ ~failing)

C10_Witness ==
    /\ pc = "audited"
    /\ OverallStatus(report.issues) = "FAIL"
    /\ \E i \in 1..Len(report.issues) : Head(report.issues[i]) = "WARN"
    /\ \E i \in 1..Len(report.node_counts) :
          /\ report.node_counts[i].pg_count = MaxCount \div 2
          /\ report.node_counts[i].neo4j_count = (MaxCount \div 2) - 2

-----------------------------------------------------------------------------
(* The audit report: coverage and completeness *)

\* the report has a coverage entry of a property that no node of a
\* non-empty label holds
LowCoverage ==
    \E i \in 1..Len(report.property_coverage) :
        \E p \in 1..Len(report.property_coverage[i].properties) :
            LET c == report.property_coverage[i].properties[p]
            IN c.total_nodes > 0 /\ c.populated = 0

\* C11: a property with low coverage produces a warning that reaches the
\* verdict: the issue list is not empty and overall_status is not PASS.
C11_LowCoverageWarns ==
    (pc = "audited" /\ LowCoverage) =>
        /\ report.issues # <<>>
        /\ OverallStatus(report.issues) # "PASS"

\* C12: the report of run_audit has a node count entry, a coverage entry and
\* a sample check entry for every node type, and a relationship count entry
\* for every relationship type of the schema.
C12_ReportComplete ==
    pc = "audited" =>
        /\ \A i \in 1..Len(schema.nodes) :
              /\ \E k \in 1..Len(report.node_counts) :
                    report.node_counts[k].label = schema.nodes[i].label
              /\ \E k \in 1..Len(report.property_coverage) :
                    report.property_coverage[k].label = schema.nodes[i].label
              /\ \E k \in 1..Len(report.sample_checks) :
                    report.sample_checks[k].label = schema.nodes[i].label
        /\ \A i \in 1..Len(schema.relationships) :
              \E k \in 1..Len(report.rel_counts) :
                  report.rel_counts[k].rel_type = schema.relationships[i].type

-----------------------------------------------------------------------------
(* The schema analyzer's classification of a table (schema_analyzer).  An   *)
(* analyzed table also has schema, row_count (None or <<n>>) and table_type *)

\* the row count above which a table is no lookup table
LookupRowLimit == 1000

\* Table.is_junction_table without the comparison of the key columns
is_junction_table_AnyKey(t) ==
    /\ Len(t.foreign_keys) = 2
    /\ t.primary_key.shape # "none" /\ Len(t.primary_key.columns) = 2
    /\ Cardinality({i \in 1..Len(t.columns) :
                       t.columns[i].name \notin Range(t.primary_key.columns)}) <= 2

\* Table.is_junction_table
is_junction_table(t) ==
    IF Len(t.foreign_keys) # 2 THEN FALSE
    ELSE IF t.primary_key.shape = "none" \/ Len(t.primary_key.columns) # 2 THEN FALSE
    ELSE IF {t.foreign_keys[i].column : i \in 1..Len(t.foreign_keys)}
                # Range(t.primary_key.columns) THEN FALSE
    ELSE Cardinality({i \in 1..Len(t.columns) :
                         t.columns[i].name \notin Range(t.primary_key.columns)}) <= 2

\* lookup_indicators of Table.is_lookup_table
lookup_indicators == {<<"c","o","d","e">>, <<"n","a","m","e">>, <<"t","y","p","e">>, <<"c","a","t","e","g","o","r","y">>, <<"d","e","s","c","r","i","p","t","i","o","n">>, <<"v","a","l","u","e">>}

\* Table.is_lookup_table
is_lookup_table(t) ==
    IF t.row_count # None /\ t.row_count[1] # 0 /\ t.row_count[1] > LookupRowLimit THEN FALSE
    ELSE LET column_names == {Lower(t.columns[i].name) : i \in 1..Len(t.columns)}
             has_lookup_pattern == Cardinality(column_names \cap lookup_indicators) >= 2
             has_external_fks == \E i \in 1..Len(t.foreign_keys) :
                                     t.foreign_keys[i].referenced_table # t.name
         IN has_lookup_pattern /\ ~has_external_fks

\* the PostGIS catalog tables
SpatialSystemTables == {<<"s","p","a","t","i","a","l","_","r","e","f","_","s","y","s">>, <<"g","e","o","g","r","a","p","h","y","_","c","o","l","u","m","n","s">>, <<"g","e","o","m","e","t","r","y","_","c","o","l","u","m","n","s">>}

\* Table.classify_table_type
classify_table_type(t) ==
    IF t.schema \in {"public", "tiger"} /\ t.name \in SpatialSystemTables THEN "SPATIAL"
    ELSE IF is_junction_table(t) THEN "JUNCTION"
    ELSE IF is_lookup_table(t) THEN "LOOKUP"
    ELSE "ENTITY"

\* SchemaAnalyzer._classify_tables, at the end of analyze()
ClassifyTables ==
    /\ pc = "analyze"
    /\ engine' = [engine EXCEPT !.tables =
                     [i \in 1..Len(engine.tables) |->
                         [engine.tables[i] EXCEPT
                             !.table_type = classify_table_type(engine.tables[i])]]]
    /\ pc' = "analyzed"
    /\ UNCHANGED <<doc, db, schema, target, ni, ri, bi, acc, node_counts, rel_counts,
                   err, fault, log, target0, snap, report>>

\* ForeignKey(column, referenced_table, ...)
ForeignKey(column, referenced_table) ==
    [column |-> column, referenced_table |-> referenced_table, referenced_column |-> <<"i","d">>]

\* the link table of the analysis: columns a_id, b_id and the given others
LinkTable == <<"l","i","n","k","s">>

\* foreign keys of the table: none, one, two to other tables, two to the
\* table itself, two on the same column, three
AnalyzedForeignKeys ==
    {<<>>,
     <<ForeignKey(<<"a","_","i","d">>, <<"a","s">>)>>,
     <<ForeignKey(<<"a","_","i","d">>, <<"a","s">>), ForeignKey(<<"b","_","i","d">>, <<"b","s">>)>>,
     <<ForeignKey(<<"a","_","i","d">>, LinkTable), ForeignKey(<<"b","_","i","d">>, LinkTable)>>,
     <<ForeignKey(<<"a","_","i","d">>, <<"a","s">>), ForeignKey(<<"a","_","i","d">>, <<"b","s">>)>>,
     <<ForeignKey(<<"a","_","i","d">>, <<"a","s">>), ForeignKey(<<"b","_","i","d">>, <<"b","s">>), ForeignKey(<<"c","o","d","e">>, <<"b","s">>)>>}

\* primary keys as _get_primary_key returns them
AnalyzedPrimaryKeys ==
    {[shape |-> "none", columns |-> <<>>],
     [shape |-> "PrimaryKey", columns |-> <<<<"a","_","i","d">>, <<"b","_","i","d">>>>],
     [shape |-> "PrimaryKey", columns |-> <<<<"b","_","i","d">>, <<"a","_","i","d">>>>],
     [shape |-> "PrimaryKey", columns |-> <<<<"a","_","i","d">>>>],
     [shape |-> "PrimaryKey", columns |-> <<<<"a","_","i","d">>, <<"c","o","d","e">>>>],
     [shape |-> "PrimaryKey", columns |-> <<<<"a","_","i","d">>, <<"b","_","i","d">>, <<"c","o","d","e">>>>]}

\* the columns besides a_id and b_id
OtherColumns ==
    {<<>>, <<<<"n","o","t","e">>>>, <<<<"c","o","d","e">>>>, <<<<"c","o","d","e">>, <<"n","a","m","e">>>>, <<<<"C","o","d","e">>, <<"N","A","M","E">>>>,
     <<<<"c","o","d","e">>, <<"n","a","m","e">>, <<"n","o","t","e">>>>, <<<<"c","o","d","e">>, <<"n","o","t","e">>, <<"c","r","e","a","t","e","d">>>>}

\* row counts as _get_row_count returns them
RowCounts == {None, <<0>>, <<LookupRowLimit - 1>>, <<LookupRowLimit>>, <<LookupRowLimit + 1>>}

AnalyzedTables ==
    {[name |-> n, schema |-> s,
      columns |-> [i \in 1..(2 + Len(o)) |->
                      IF i = 1 THEN Column(<<"a","_","i","d">>, <<"i","n","t","e","g","e","r">>)
                      ELSE IF i = 2 THEN Column(<<"b","_","i","d">>, <<"i","n","t","e","g","e","r">>)
                      ELSE Column(o[i - 2], <<"v","a","r","c","h","a","r">>)],
      primary_key |-> pk, foreign_keys |-> fks, row_count |-> rc,
      table_type |-> "UNKNOWN"] :
        n \in {LinkTable, <<"s","p","a","t","i","a","l","_","r","e","f","_","s","y","s">>}, s \in {"public", "app"},
        o \in OtherColumns, pk \in AnalyzedPrimaryKeys, fks \in AnalyzedForeignKeys,
        rc \in RowCounts}

InitAnalyze ==
    /\ schema = NoSchema
    /\ pc = "analyze"
    /\ ni = 1 /\ ri = 1 /\ bi = 0 /\ acc = 0
    /\ node_counts = <<>> /\ rel_counts = <<>>
    /\ err = ""
    /\ log = <<>>
    /\ target0 = EmptyTarget
    /\ snap = NoSnap
    /\ report = NoReport
    /\ doc = <<>>
    /\ db = SourceDb(0, <<>>)
    /\ target = EmptyTarget
    /\ fault = FALSE
    /\ \E t \in AnalyzedTables :
          engine = [tables |-> <<t>>, spatial_config |-> DefaultSpatialConfig]

SpecAnalyze == InitAnalyze /\ [][ClassifyTables]_vars

\* a table that is no spatial system table
Ordinary(t) == ~(t.schema \in {"public", "tiger"} /\ t.name \in SpatialSystemTables)

\* exactly 2 foreign keys, a 2-column primary key and at most 2 other columns
TwoKeyShape(t) ==
    /\ Len(t.foreign_keys) = 2
    /\ Len(t.primary_key.columns) = 2
    /\ Cardinality({i \in 1..Len(t.columns) :
                       t.columns[i].name \notin Range(t.primary_key.columns)}) <= 2

\* the primary key columns are the foreign key columns
KeyIsForeignKeys(t) ==
    Range(t.primary_key.columns) = {t.foreign_keys[i].column : i \in 1..Len(t.foreign_keys)}

\* at least 2 lookup indicators among the column names and no foreign key
\* to another table
LookupPattern(t) ==
    /\ Cardinality({Lower(t.columns[i].name) : i \in 1..Len(t.columns)}
                       \cap {<<"c","o","d","e">>, <<"n","a","m","e">>, <<"t","y","p","e">>, <<"c","a","t","e","g","o","r","y">>, <<"d","e","s","c","r","i","p","t","i","o","n">>, <<"v","a","l","u","e">>}) >= 2
    /\ \A i \in 1..Len(t.foreign_keys) : t.foreign_keys[i].referenced_table = t.name

C14_LookupBelowThousand ==
    pc = "analyzed" =>
        \A i \in 1..Len(engine.tables) :
            LET t == engine.tables[i]
            IN (Ordinary(t) /\ t.table_type # "JUNCTION") =>
                  t.table_type =
                      IF t.row_count # None /\ t.row_count[1] < 1000 /\ LookupPattern(t)
                      THEN "LOOKUP" ELSE "ENTITY"

-----------------------------------------------------------------------------
(* _values_match over Python values: <<"none">>, <<"int", n>>,              *)
(* <<"float", u>>, <<"bool", b>>, <<"str", chars>>, <<"decimal", chars>>    *)
(* and <<"date", chars>>.  A float is carried exactly, as a whole number u  *)
(* of Tolerance / 10; the values drawn keep away from a difference of       *)
(* exactly 1e-6, where binary rounding decides the comparison.              *)

\* 1e-6, in the units floats are carried in
Tolerance == 10

\* 1.0 in the same units
Unit == Tolerance * 1000000


PyNone == <<"none">>
PyInt(n) == <<"int", n>>
PyBool(b) == <<"bool", b>>
PyStrV(s) == <<"str", s>>
PyDecimal(s) == <<"decimal", s>>
PyDate(s) == <<"date", s>>

DigitChars == <<"0", "1", "2", "3", "4", "5", "6", "7", "8", "9">>

DigitOf(c) == (CHOOSE i \in 1..10 : DigitChars[i] = c) - 1

AllDigits(s) == \A i \in 1..Len(s) : s[i] \in Range(DigitChars)

RECURSIVE DigitsValue(_)
DigitsValue(s) ==
    IF s = <<>> THEN 0 ELSE DigitsValue(SubSeq(s, 1, Len(s) - 1)) * 10 + DigitOf(s[Len(s)])

RECURSIVE ToDigits(_)
ToDigits(n) ==
    IF n < 10 THEN <<DigitChars[n + 1]>> ELSE ToDigits(n \div 10) \o <<DigitChars[(n % 10) + 1]>>

\* the decimal places a float is carried to
FracLen == Len(ToDigits(Unit)) - 1

RECURSIVE ZeroPad(_, _)
ZeroPad(s, n) == IF Len(s) >= n THEN s ELSE ZeroPad(<<"0">> \o s, n)

RECURSIVE PadRight(_, _)
PadRight(s, n) == IF Len(s) >= n THEN s ELSE PadRight(s \o <<"0">>, n)

\* float(text) raises ValueError unless the text, surrounding whitespace
\* removed, is an unsigned decimal literal
LiteralRaises(s) ==
    LET parts == Split(Strip(s), ".")
    IN ~ /\ Len(parts) <= 2
         /\ \A i \in 1..Len(parts) : AllDigits(parts[i])
         /\ Join(parts) # <<>>
         /\ Len(parts) = 2 => Len(parts[2]) <= FracLen

LiteralValue(s) ==
    LET parts == Split(Strip(s), ".")
        frac == IF Len(parts) = 2 THEN parts[2] ELSE <<>>
    IN DigitsValue(parts[1]) * Unit + DigitsValue(PadRight(frac, FracLen))

\* float(v) raises ValueError (text that is no number) or TypeError (a date)
PyFloatRaises(v) ==
    CASE v[1] = "str" -> LiteralRaises(v[2])
      [] v[1] = "date" -> TRUE
      [] OTHER -> FALSE

\* float(v)
PyFloat(v) ==
    CASE v[1] = "int" -> v[2] * Unit
      [] v[1] = "float" -> v[2]
      [] v[1] = "bool" -> IF v[2] THEN Unit ELSE 0
      [] OTHER -> LiteralValue(v[2])

PyFloatV(s) == <<"float", LiteralValue(s)>>

\* str(v)
PyStr(v) ==
    CASE v[1] = "none" -> <<"N","o","n","e">>
      [] v[1] = "int" -> ToDigits(v[2])
      [] v[1] = "float" ->
            LET frac == RStrip(ZeroPad(ToDigits(v[2] % Unit), FracLen), "0")
            IN ToDigits(v[2] \div Unit) \o <<".">> \o (IF frac = <<>> THEN <<"0">> ELSE frac)
      [] v[1] = "bool" -> IF v[2] THEN <<"T","r","u","e">> ELSE <<"F","a","l","s","e">>
      [] OTHER -> v[2]

\* isinstance(v, (int, float)): bool is a subclass of int
IsIntOrFloat(v) == v[1] \in {"int", "float", "bool"}

values_match_NoStrip(neo4j_val, pg_val) ==
    IF neo4j_val = PyNone /\ pg_val = PyNone THEN TRUE
    ELSE IF neo4j_val = PyNone \/ pg_val = PyNone THEN FALSE
    ELSE IF /\ IsIntOrFloat(neo4j_val) \/ IsIntOrFloat(pg_val)
            /\ ~PyFloatRaises(neo4j_val) /\ ~PyFloatRaises(pg_val)
         THEN Abs(PyFloat(neo4j_val) - PyFloat(pg_val)) < Tolerance
    ELSE PyStr(neo4j_val) = PyStr(pg_val)

\* _values_match
values_match(neo4j_val, pg_val) ==
    IF neo4j_val = PyNone /\ pg_val = PyNone THEN TRUE
    ELSE IF neo4j_val = PyNone \/ pg_val = PyNone THEN FALSE
    ELSE IF /\ IsIntOrFloat(neo4j_val) \/ IsIntOrFloat(pg_val)
            /\ ~PyFloatRaises(neo4j_val) /\ ~PyFloatRaises(pg_val)
         THEN Abs(PyFloat(neo4j_val) - PyFloat(pg_val)) < Tolerance
    ELSE Strip(PyStr(neo4j_val)) = Strip(PyStr(pg_val))

\* the values a property and a column take
PyValues ==
    {PyNone, PyInt(10), PyInt(5), PyInt(1), PyFloatV(<<"1","0",".","0">>), PyFloatV(<<"1","0",".","0","0","0","0","0","0","1">>),
     PyFloatV(<<"1","0",".","0","0","0","0","0","1","1">>), PyFloatV(<<"1",".","5">>), PyBool(TRUE), PyBool(FALSE),
     PyStrV(<<"A">>), PyStrV(<<"a"," ">>), PyStrV(<<"a">>), PyStrV(<<" ","1","0"," ">>), PyStrV(<<"1","0",".","0">>),
     PyStrV(<<"T","r","u","e">>), PyStrV(<<"1">>), PyStrV(<<"1",".","5">>), PyStrV(<<"2","0","2","4","-","0","1","-","0","2">>),
     PyDecimal(<<"1",".","5","0">>), PyDecimal(<<"1","0">>), PyDate(<<"2","0","2","4","-","0","1","-","0","2">>)}

-----------------------------------------------------------------------------
(* The mapping rules as functions: a call is drawn from bounded sets of     *)
(* arguments, engine holds it and report the value the call returned        *)

Call(rule, args) == [rule |-> rule, args |-> args]

\* data_type values of columns: the names of TYPE_MAPPING in both cases,
\* the names information_schema reports, array types, and other types
PgTypeNames ==
    {<<"i","n","t","e","g","e","r">>, <<"b","i","g","i","n","t">>, <<"s","m","a","l","l","i","n","t">>, <<"I","N","T","E","G","E","R">>, <<"n","u","m","e","r","i","c">>, <<"d","e","c","i","m","a","l">>, <<"r","e","a","l">>,
     <<"d","o","u","b","l","e"," ","p","r","e","c","i","s","i","o","n">>, <<"m","o","n","e","y">>, <<"v","a","r","c","h","a","r">>, <<"c","h","a","r">>, <<"t","e","x","t">>, <<"c","h","a","r","a","c","t","e","r"," ","v","a","r","y","i","n","g">>,
     <<"b","o","o","l","e","a","n">>, <<"d","a","t","e">>, <<"t","i","m","e","s","t","a","m","p">>, <<"t","i","m","e","s","t","a","m","p","t","z">>, <<"t","i","m","e","s","t","a","m","p"," ","w","i","t","h"," ","t","i","m","e"," ","z","o","n","e">>,
     <<"t","i","m","e","s","t","a","m","p"," ","w","i","t","h","o","u","t"," ","t","i","m","e"," ","z","o","n","e">>, <<"i","n","t","e","g","e","r","[","]">>, <<"b","i","g","i","n","t","[","]">>, <<"n","u","m","e","r","i","c","[","]">>, <<"m","o","n","e","y","[","]">>,
     <<"t","e","x","t","[","]">>, <<"v","a","r","c","h","a","r","[","]">>, <<"u","u","i","d">>, <<"j","s","o","n">>, <<"i","n","t","e","r","v","a","l">>, <<"t","i","m","e">>, <<"d","a","t","e","r","a","n","g","e">>, <<"A","R","R","A","Y">>}

GeometryColumns == {<<"g","e","o","m">>, <<"g","e","o","m","e","t","r","y">>}

\* target_srid: None (0) or an SRID
TargetSrids == {0, 4326}

FkColumnNames ==
    {<<"z","i","p","c","o","d","e">>, <<"z","i","p","_","c","o","d","e">>, <<"Z","I","P">>, <<"o","w","n","e","r","_","z","i","p">>, <<"p","r","o","j","e","c","t","_","z","i","p","c","o","d","e">>, <<"o","w","n","e","r","_","i","d">>,
     <<"p","r","o","j","e","c","t","_","o","w","n","e","r","_","i","d">>, <<"p","r","o","j","e","c","t","_","i","d">>, <<"p","a","r","e","n","t","_","p","r","o","j","e","c","t">>, <<"p","a","r","e","n","t","_","i","d">>, <<"m","a","n","a","g","e","r","_","i","d">>,
     <<"p","a","r","e","n","t","_","m","a","n","a","g","e","r">>, <<"m","a","n","a","g","e","d","_","b","y">>, <<"u","s","e","r","_","i","d">>, <<"i","d">>}

ToLabels == {<<"U","s","e","r">>, <<"Z","i","p","C","o","d","e">>}

TableNames ==
    {<<"h","o","u","s","i","n","g","_","p","r","o","j","e","c","t","s">>, <<"z","i","p","c","o","d","e","s">>, <<"r","e","n","t","_","b","u","r","d","e","n">>, <<"b","u","i","l","d","i","n","g","s">>, <<"u","s","e","r","s","_","r","o","l","e","s">>,
     <<"a","d","d","r","e","s","s">>, <<"c","l","a","s","s">>, <<"s","t","a","t","u","s">>, <<"s">>, <<"U","s","e","r","s">>}

\* the spatial_config argument of MappingEngine: None, or <<config>> with
\* any combination of the flags
SpatialConfigArgs ==
    {None} \cup
    {<<[DefaultSpatialConfig EXCEPT !.compute_centroids = c, !.preserve_wkt = w,
                                    !.preserve_geojson = g, !.compute_metrics = m,
                                    !.compute_bbox = b]>> :
        c \in BOOLEAN, w \in BOOLEAN, g \in BOOLEAN, m \in BOOLEAN, b \in BOOLEAN}

Calls ==
    {Call("postgres_type_to_neo4j_type", <<t>>) : t \in PgTypeNames}
    \cup {Call("generate_spatial_properties", <<g, wkt, geojson, metrics, bbox, srid>>) :
             g \in GeometryColumns, wkt \in BOOLEAN, geojson \in BOOLEAN,
             metrics \in BOOLEAN, bbox \in BOOLEAN, srid \in TargetSrids}
    \cup {Call("generate_relationship_type", <<<<"B","u","i","l","d","i","n","g">>, l, c>>) :
             l \in ToLabels, c \in FkColumnNames}
    \cup {Call("table_to_node_label", <<n>>) : n \in TableNames}
    \cup {Call("MappingEngine", <<c>>) : c \in SpatialConfigArgs}
    \cup {Call("_values_match", <<a, b>>) : a \in PyValues, b \in PyValues}

InitRules ==
    /\ engine \in Calls
    /\ doc = <<>>
    /\ db = SourceDb(0, <<>>)
    /\ schema = NoSchema
    /\ target = EmptyTarget
    /\ pc = "call"
    /\ ni = 1 /\ ri = 1 /\ bi = 0 /\ acc = 0
    /\ node_counts = <<>> /\ rel_counts = <<>>
    /\ err = ""
    /\ fault = FALSE
    /\ log = <<>>
    /\ target0 = EmptyTarget
    /\ snap = NoSnap
    /\ report = NoReport

\* the call returns v
Returns(v) ==
    /\ report' = v
    /\ pc' = "returned"
    /\ UNCHANGED <<engine, doc, db, schema, target, ni, ri, bi, acc, node_counts,
                   rel_counts, err, fault, log, target0, snap>>

MapType ==
    /\ pc = "call" /\ engine.rule = "postgres_type_to_neo4j_type"
    /\ Returns(postgres_type_to_neo4j_type(engine.args[1]))

SpatialProperties ==
    /\ pc = "call" /\ engine.rule = "generate_spatial_properties"
    /\ Returns(generate_spatial_properties(engine.args[1], engine.args[2], engine.args[3],
                                           engine.args[4], engine.args[5], engine.args[6]))

RelationshipType ==
    /\ pc = "call" /\ engine.rule = "generate_relationship_type"
    /\ Returns(generate_relationship_type(engine.args[1], engine.args[2], engine.args[3]))

NodeLabel ==
    /\ pc = "call" /\ engine.rule = "table_to_node_label"
    /\ Returns(table_to_node_label(engine.args[1]))

ValuesMatchCall ==
    /\ pc = "call" /\ engine.rule = "_values_match"
    /\ Returns(values_match(engine.args[1], engine.args[2]))

\* MappingEngine(tables, spatial_config).generate_graph_schema() up to the
\* spatial properties, for the zipcodes table
EngineSpatialProperties ==
    /\ pc = "call" /\ engine.rule = "MappingEngine"
    /\ LET tables == <<AutoTables("list", FALSE, FALSE, FALSE)[1]>>
           spatial_config == IF engine.args[1] = None THEN DefaultSpatialConfig
                             ELSE engine.args[1][1]
       IN Returns(add_spatial_properties(generate_graph_schema(tables), spatial_config))

NextRules ==
    \/ EngineSpatialProperties
    \/ MapType
    \/ SpatialProperties
    \/ RelationshipType
    \/ NodeLabel
    \/ ValuesMatchCall

SpecRules == InitRules /\ [][NextRules]_vars

Returned(rule) == pc = "returned" /\ engine.rule = rule

\* the type the mapping states for a type name: by family for the names it
\* lists, a list of the element's family for an array type, string otherwise
StatedType(name) ==
    LET ints == {<<"i","n","t","e","g","e","r">>, <<"b","i","g","i","n","t">>, <<"s","m","a","l","l","i","n","t">>}
        floats == {<<"n","u","m","e","r","i","c">>, <<"d","e","c","i","m","a","l">>, <<"r","e","a","l">>, <<"d","o","u","b","l","e"," ","p","r","e","c","i","s","i","o","n">>, <<"m","o","n","e","y">>}
        strings == {<<"v","a","r","c","h","a","r">>, <<"c","h","a","r">>, <<"t","e","x","t">>, <<"c","h","a","r","a","c","t","e","r"," ","v","a","r","y","i","n","g">>}
        stamps == {<<"t","i","m","e","s","t","a","m","p">>, <<"t","i","m","e","s","t","a","m","p","t","z">>, <<"t","i","m","e","s","t","a","m","p"," ","w","i","t","h"," ","t","i","m","e"," ","z","o","n","e">>,
                   <<"t","i","m","e","s","t","a","m","p"," ","w","i","t","h","o","u","t"," ","t","i","m","e"," ","z","o","n","e">>}
        n == Lower(name)
        elem == SubSeq(n, 1, Len(n) - 2)
    IN IF EndsWith(n, <<"[", "]">>)
       THEN IF elem \in ints THEN <<"L","I","S","T","_","I","N","T","E","G","E","R">>
            ELSE IF elem \in floats THEN <<"L","I","S","T","_","F","L","O","A","T">>
            ELSE <<"L","I","S","T","_","S","T","R","I","N","G">>
       ELSE IF n \in ints THEN <<"I","N","T","E","G","E","R">>
       ELSE IF n \in floats THEN <<"F","L","O","A","T">>
       ELSE IF n \in strings THEN <<"S","T","R","I","N","G">>
       ELSE IF n = <<"b","o","o","l","e","a","n">> THEN <<"B","O","O","L","E","A","N">>
       ELSE IF n = <<"d","a","t","e">> THEN <<"D","A","T","E">>
       ELSE IF n \in stamps THEN <<"D","A","T","E","T","I","M","E">>
       ELSE <<"S","T","R","I","N","G">>

\* C15: postgres_type_to_neo4j_type returns a property type for every type
\* name: the type of the name's family, the list type of the element family
\* for an array type, and string for every name it does not know.
C15_TypeOfFamily ==
    Returned("postgres_type_to_neo4j_type") =>
        /\ report \in PropertyTypeNames
        /\ report = StatedType(engine.args[1])

\* the names of a list of properties
PropertyNames(props) == {props[i].name : i \in 1..Len(props)}

\* 1 when the flag is set
Bit(flag) == IF flag THEN 1 ELSE 0

\* C17: generate_spatial_properties returns the 3 core properties and, for
\* each optional flag that is set, that flag's own properties and no other:
\* 3 + wkt + geojson + metrics + 4 * bbox properties in all.
C17_SpatialPropertyCount ==
    Returned("generate_spatial_properties") =>
        LET wkt == engine.args[2]
            geojson == engine.args[3]
            metrics == engine.args[4]
            bbox == engine.args[5]
        IN /\ Len(report) = 3 + Bit(wkt) + Bit(geojson) + Bit(metrics) + 4 * Bit(bbox)
           /\ PropertyNames(report) =
                 {<<"c","e","n","t","e","r","_","l","a","t">>, <<"c","e","n","t","e","r","_","l","o","n">>, <<"a","r","e","a","_","k","m","2">>}
                 \cup (IF wkt THEN {<<"g","e","o","m","e","t","r","y","_","w","k","t">>} ELSE {})
                 \cup (IF geojson THEN {<<"g","e","o","m","e","t","r","y","_","g","e","o","j","s","o","n">>} ELSE {})
                 \cup (IF metrics THEN {<<"p","e","r","i","m","e","t","e","r","_","k","m">>} ELSE {})
                 \cup (IF bbox THEN {<<"b","b","o","x","_","x","m","i","n">>, <<"b","b","o","x","_","y","m","i","n">>, <<"b","b","o","x","_","x","m","a","x">>, <<"b","b","o","x","_","y","m","a","x">>}
                       ELSE {})

C17_Witness ==
    /\ Returned("generate_spatial_properties")
    /\ engine.args[2] /\ ~engine.args[3] /\ ~engine.args[4] /\ engine.args[5]
    /\ Len(report) = 8

\* the relationship type stated for an FK column, given the keywords that
\* yield MANAGED_BY
StatedRelType(to_label, fk_column, managed) ==
    LET c == Lower(fk_column)
    IN IF Contains(<<"z","i","p">>, c) THEN <<"L","O","C","A","T","E","D","_","I","N">>
       ELSE IF Contains(<<"o","w","n","e","r">>, c) THEN <<"O","W","N","E","D","_","B","Y">>
       ELSE IF Contains(<<"p","r","o","j","e","c","t">>, c) THEN <<"H","A","S","_","P","R","O","J","E","C","T">>
       ELSE IF Contains(<<"p","a","r","e","n","t">>, c) THEN <<"C","H","I","L","D","_","O","F">>
       ELSE IF \E k \in managed : Contains(k, c) THEN <<"M","A","N","A","G","E","D","_","B","Y">>
       ELSE <<"H","A","S","_">> \o Upper(to_label)

\* C19 as stated: LOCATED_IN for every FK column that contains 'zip', else
\* OWNED_BY for 'owner', HAS_PROJECT for 'project', CHILD_OF for 'parent',
\* MANAGED_BY for 'manager', in that order, and HAS_<TO_LABEL> otherwise.
C19_RelTypeByKeyword ==
    Returned("generate_relationship_type") =>
        report = StatedRelType(engine.args[2], engine.args[3], {<<"m","a","n","a","g","e","r">>})

\* C19, amended: as above, with MANAGED_BY for 'manager' or 'managed'.
C19_RelTypeByKeywordOrManaged ==
    Returned("generate_relationship_type") =>
        report = StatedRelType(engine.args[2], engine.args[3], {<<"m","a","n","a","g","e","r">>, <<"m","a","n","a","g","e","d">>})

C19_Witness ==
    /\ Returned("generate_relationship_type")
    /\ engine.args[3] = <<"o","w","n","e","r","_","z","i","p">>
    /\ report = <<"L","O","C","A","T","E","D","_","I","N">>

\* snake_case to PascalCase
PascalCase(name) ==
    LET parts == Split(name, "_")
    IN Join([i \in 1..Len(parts) |-> Capitalize(parts[i])])

\* C20: table_to_node_label drops the final 's' of a name that ends in 's',
\* and nothing else, and converts the name to PascalCase.
C20_LabelDropsOneS ==
    Returned("table_to_node_label") =>
        LET name == engine.args[1]
        IN report = PascalCase(IF EndsWith(name, <<"s">>)
                               THEN SubSeq(name, 1, Len(name) - 1) ELSE name)

\* the names of the properties a node computes from its geometry
SpatialNames(node) ==
    {node.properties[i].name :
        i \in {k \in 1..Len(node.properties) : node.properties[k].transformation # None}}

\* C18: on the automatic path each optional spatial property is on a
\* geometry node exactly when its own flag was explicitly enabled, whatever
\* the other flags are, and an engine given no spatial configuration adds
\* the core properties only.
C18_OptionalOnlyWhenEnabled ==
    Returned("MappingEngine") =>
        \A i \in 1..Len(report.nodes) :
            report.nodes[i].has_geometry =>
                LET names == SpatialNames(report.nodes[i])
                    given == engine.args[1] # None
                    cfg == IF given THEN engine.args[1][1] ELSE DefaultSpatialConfig
                    On(flag, own) == IF given /\ flag THEN own \subseteq names
                                     ELSE own \cap names = {}
                IN /\ On(cfg.preserve_wkt, {<<"g","e","o","m","e","t","r","y","_","w","k","t">>})
                   /\ On(cfg.preserve_geojson, {<<"g","e","o","m","e","t","r","y","_","g","e","o","j","s","o","n">>})
                   /\ On(cfg.compute_metrics, {<<"p","e","r","i","m","e","t","e","r","_","k","m">>})
                   /\ On(cfg.compute_bbox,
                         {<<"b","b","o","x","_","x","m","i","n">>, <<"b","b","o","x","_","y","m","i","n">>, <<"b","b","o","x","_","x","m","a","x">>, <<"b","b","o","x","_","y","m","a","x">>})
                   /\ (~given => names = {<<"c","e","n","t","e","r","_","l","a","t">>, <<"c","e","n","t","e","r","_","l","o","n">>, <<"a","r","e","a","_","k","m","2">>})

-----------------------------------------------------------------------------
(* The same two tables with the key column zipcodes.zipcode, and the        *)
(* column housing_projects.postcode that references it, of another type     *)

\* text, integer and date key columns (a Decimal is not drawn)
KeyKinds == {"text", "int", "date"}

KeyTypeName(kind) == IF kind = "int" THEN "integer" ELSE kind

KeyedZipRows(kind, m) ==
    [i \in 1..m |-> [ZipRows(m)[i] EXCEPT ![<<"z","i","p","c","o","d","e">>] = <<kind, i>>]]

KeyedDb(kind, m, fk) ==
    [t \in {ZipTable, ProjTable} |->
        IF t = ZipTable
        THEN [columns |-> ZipCols,
              types |-> [ZipTypes EXCEPT ![<<"z","i","p","c","o","d","e">>] = KeyTypeName(kind)],
              rows |-> KeyedZipRows(kind, m)]
        ELSE [columns |-> ProjCols,
              types |-> [ProjTypes EXCEPT ![<<"p","o","s","t","c","o","d","e">>] = KeyTypeName(kind)],
              rows |-> ProjRows(fk)]]

KeyedFkVals(kind) == {Null, <<kind, 1>>, <<kind, MaxParents>>}

KeyedDbs ==
    UNION {{KeyedDb(kind, m, fk) : m \in 0..MaxParents,
                                   fk \in SeqsUpTo(KeyedFkVals(kind), MaxRows)} :
              kind \in KeyKinds}

InitKeys ==
    /\ InitCommon
    /\ engine = NoEngine
    /\ doc = GoodDoc
    /\ db \in KeyedDbs
    /\ target = EmptyTarget
    /\ fault = TRUE

SpecKeys == InitKeys /\ [][Next]_vars

-----------------------------------------------------------------------------
(* Mapping documents with one computed relationship over zipcodes: directed *)
(* or not, from the generated query or from one that returns both orders    *)

PairQueries == {"NEIGHBORS", "NEAR"}

PairsCfg(bidirectional, query) ==
    [NeighborsCfg EXCEPT !.bidirectional = bidirectional,
                         !.computation_query = <<query, ZipTable, <<"g","e","o","m","e","t","r","y">>, <<"z","i","p","c","o","d","e">>, 0>>]

\* one definition, or two definitions of the same type name
PairDocs ==
    {[GoodDoc EXCEPT !.relationships = <<PairsCfg(b, q)>>] :
        b \in BOOLEAN, q \in PairQueries}
    \cup {[GoodDoc EXCEPT !.relationships = <<PairsCfg(b, "NEIGHBORS"), PairsCfg(b, "NEAR")>>] :
             b \in BOOLEAN}

InitPairs ==
    /\ InitCommon
    /\ engine = NoEngine
    /\ doc \in PairDocs
    /\ db \in {SourceDb(m, <<>>) : m \in 0..MaxParents}
    /\ target = EmptyTarget
    /\ fault = TRUE

SpecPairs == InitPairs /\ [][Next]_vars

-----------------------------------------------------------------------------
(* main.py generate-mapping: the analyzed and classified tables go to       *)
(* MappingEngine(tables).generate_graph_schema()                            *)

GenerateAnalyzed ==
    /\ pc = "analyzed"
    /\ IF \E i \in 1..Len(engine.tables) : PrimaryKeyRaises(engine.tables[i])
       THEN /\ pc' = "gen_failed"
            /\ err' = "TypeError"
            /\ schema' = schema
       ELSE /\ pc' = "ready"
            /\ err' = err
            /\ schema' = add_spatial_relationships(
                             add_spatial_properties(generate_graph_schema(engine.tables),
                                                    engine.spatial_config),
                             engine.tables, engine.spatial_config, 1)
    /\ UNCHANGED <<engine, doc, db, target, ni, ri, bi, acc, node_counts, rel_counts,
                   fault, log, target0, snap, report>>

NextMapping ==
    \/ ClassifyTables
    \/ GenerateAnalyzed

SpecMapping == InitAnalyze /\ [][NextMapping]_vars

-----------------------------------------------------------------------------
(* A mapping document whose HousingProject node has two merge keys *)

CompositeDocs ==
    {[GoodDoc EXCEPT !.nodes = <<ZipNodeCfg, [ProjNodeCfg EXCEPT !.merge_keys = keys]>>] :
        keys \in {<<<<"p","r","o","j","e","c","t","_","i","d">>, <<"p","o","s","t","c","o","d","e">>>>, <<<<"p","o","s","t","c","o","d","e">>, <<"p","r","o","j","e","c","t","_","i","d">>>>}}

InitComposite ==
    /\ InitCommon
    /\ engine = NoEngine
    /\ doc \in CompositeDocs
    /\ db \in SourceDbs
    /\ target = EmptyTarget
    /\ fault = TRUE

SpecComposite == InitComposite /\ [][Next]_vars

-----------------------------------------------------------------------------
(* MappingEngine.export_yaml_config and the document read back: main.py     *)
(* generate-mapping writes the file that main.py migrate loads              *)

\* PropertyType[name].value
PropertyTypeValue(name) ==
    CASE name = <<"S","T","R","I","N","G">>       -> <<"S","t","r","i","n","g">>
      [] name = <<"I","N","T","E","G","E","R">>      -> <<"I","n","t","e","g","e","r">>
      [] name = <<"F","L","O","A","T">>        -> <<"F","l","o","a","t">>
      [] name = <<"B","O","O","L","E","A","N">>      -> <<"B","o","o","l","e","a","n">>
      [] name = <<"P","O","I","N","T">>        -> <<"P","o","i","n","t">>
      [] name = <<"D","A","T","E">>         -> <<"D","a","t","e">>
      [] name = <<"D","A","T","E","T","I","M","E">>     -> <<"D","a","t","e","T","i","m","e">>
      [] name = <<"L","I","S","T","_","S","T","R","I","N","G">>  -> <<"L","i","s","t","<","S","t","r","i","n","g",">">>
      [] name = <<"L","I","S","T","_","I","N","T","E","G","E","R">> -> <<"L","i","s","t","<","I","n","t","e","g","e","r",">">>
      [] name = <<"L","I","S","T","_","F","L","O","A","T">>   -> <<"L","i","s","t","<","F","l","o","a","t",">">>

\* the characters of a RelationshipSourceType value
SourceTypeChars(value) ==
    CASE value = "FK"       -> <<"F","K">>
      [] value = "COMPUTED" -> <<"C","O","M","P","U","T","E","D">>
      [] value = "SPATIAL"  -> <<"S","P","A","T","I","A","L">>

\* export_yaml_config: the dict handed to yaml.dump, which yaml.safe_load
\* gives back
export_yaml_config(gs) ==
    [nodes |->
        [i \in 1..Len(gs.nodes) |->
            LET node == gs.nodes[i]
            IN [label |-> node.label,
                source_table |-> node.source_table,
                primary_property |-> node.primary_property,
                has_geometry |-> node.has_geometry,
                geometry_column |-> node.geometry_column,
                indexes |-> node.indexes,
                merge_keys |-> node.merge_keys,
                properties |->
                    [j \in 1..Len(node.properties) |->
                        LET p == node.properties[j]
                        IN [name |-> p.name,
                            type |-> Lower(PropertyTypeValue(p.type)),
                            nullable |-> p.nullable,
                            source_column |-> p.source_column,
                            source_type |-> p.source_type,
                            transformation |-> p.transformation]]]],
     relationships |->
        [i \in 1..Len(gs.relationships) |->
            LET rel == gs.relationships[i]
            IN [type |-> rel.type,
                from_label |-> rel.from_label,
                to_label |-> rel.to_label,
                source_type |-> Lower(SourceTypeChars(rel.source_type)),
                source_table |-> rel.source_table,
                from_column |-> rel.from_column,
                to_column |-> rel.to_column,
                computation_query |-> rel.computation_query,
                bidirectional |-> rel.bidirectional,
                properties |->
                    [j \in 1..Len(rel.properties) |->
                        LET p == rel.properties[j]
                        IN [name |-> p.name,
                            type |-> Lower(PropertyTypeValue(p.type)),
                            nullable |-> p.nullable,
                            source_column |-> p.source_column]]]]]

\* engine.export_yaml_config(path)
ExportYaml ==
    /\ pc = "ready"
    /\ doc' = export_yaml_config(schema)
    /\ pc' = "exported"
    /\ UNCHANGED <<engine, db, schema, target, ni, ri, bi, acc, node_counts, rel_counts,
                   err, fault, log, target0, snap, report>>

\* MappingConfigLoader.load_graph_schema(path) on the exported file; report
\* holds the schema it returns
LoadExported ==
    /\ pc = "exported"
    /\ IF LoadRaises(doc)
       THEN /\ pc' = "load_failed"
            /\ err' = "KeyError"
            /\ report' = report
       ELSE /\ pc' = "loaded"
            /\ err' = err
            /\ report' = LoadGraphSchema(doc)
    /\ UNCHANGED <<engine, doc, db, schema, target, ni, ri, bi, acc, node_counts,
                   rel_counts, fault, log, target0, snap>>

InitExport ==
    /\ InitCommon
    /\ doc = <<>>
    /\ db = SourceDb(0, <<>>)
    /\ \E shape \in {"none", "list", "PrimaryKey"}, withSingular, withArea, withFk \in BOOLEAN :
          \E c \in SpatialConfigArgs :
              engine = [tables |-> AutoTables(shape, withSingular, withArea, withFk),
                        spatial_config |-> IF c = None THEN DefaultSpatialConfig ELSE c[1]]
    /\ target = EmptyTarget
    /\ fault = FALSE

NextExport ==
    \/ GenerateSchema
    \/ ExportYaml
    \/ LoadExported

SpecExport == InitExport /\ [][NextExport]_vars

-----------------------------------------------------------------------------
(* housing_projects.created_at of every column type, mapped directly to a   *)
(* property of HousingProject                                               *)

\* text, integer, decimal, boolean, date and timestamp columns
ColumnKinds == {"text", "int", "float", "bool", "date", "ts"}

TypedValue(kind, i) == IF kind = "bool" THEN <<kind, i % 2>> ELSE <<kind, i>>

TypedDb(kind, m, fk) ==
    [SourceDb(m, fk) EXCEPT
        ![ProjTable].types[<<"c","r","e","a","t","e","d","_","a","t">>] = kind,
        ![ProjTable].rows = [i \in 1..Len(fk) |->
                                [ProjRows(fk)[i] EXCEPT ![<<"c","r","e","a","t","e","d","_","a","t">>] = TypedValue(kind, i)]]]

TypedDbs ==
    {TypedDb(kind, MaxParents, fk) : kind \in ColumnKinds, fk \in SeqsUpTo(FkVals, MaxRows)}

TypedDoc ==
    [GoodDoc EXCEPT !.nodes[2].properties = Append(ProjNodeCfg.properties,
                                                   DocProp(<<"c","r","e","a","t","e","d","_","a","t">>, <<"s","t","r","i","n","g">>))]

InitTypes ==
    /\ InitCommon
    /\ engine = NoEngine
    /\ doc = TypedDoc
    /\ db \in TypedDbs
    /\ target = EmptyTarget
    /\ fault = TRUE

SpecTypes == InitTypes /\ [][Next]_vars

-----------------------------------------------------------------------------
(* The source is a live database: between a migration and the audit a row   *)
(* of housing_projects gets another key (UPDATE ... SET project_id = ...)   *)

RekeyedId == IntV(MaxRows + 1)

SourceRowRekeyed ==
    /\ pc = "done"
    /\ Len(db[ProjTable].rows) >= 1
    /\ db[ProjTable].rows[1][<<"p","r","o","j","e","c","t","_","i","d">>] # RekeyedId
    /\ db' = [db EXCEPT ![ProjTable].rows[1][<<"p","r","o","j","e","c","t","_","i","d">>] = RekeyedId]
    /\ UNCHANGED <<engine, doc, schema, target, pc, ni, ri, bi, acc, node_counts,
                   rel_counts, err, fault, log, target0, snap, report>>

InitDrift ==
    /\ InitCommon
    /\ engine = NoEngine
    /\ doc = GoodDoc
    /\ db \in SourceDbs
    /\ target = EmptyTarget
    /\ fault = TRUE

NextDrift ==
    \/ Next
    \/ SourceRowRekeyed

SpecDrift == InitDrift /\ [][NextDrift]_vars

-----------------------------------------------------------------------------
(* Node count results *)

\* C21: for a node count result with source count N and target count M,
\* match is true exactly when N = M, diff is M - N, and diff_pct is
\* |M - N| / N * 100 when N > 0 and 0 when N = 0.
C21_NodeCountArithmetic ==
    \A i \in 1..Len(report.node_counts) :
        LET nc == report.node_counts[i]
            N == nc.pg_count
            M == nc.neo4j_count
            pct == NcDiffPct(nc)
        IN /\ NcMatch(nc) <=> (N = M)
           /\ NcDiff(nc) = M - N
           /\ pct[2] > 0
           /\ IF N > 0
              THEN pct[1] * N = (IF M >= N THEN M - N ELSE N - M) * 100 * pct[2]
              ELSE pct[1] = 0
           /\ (N = M) => (NcMatch(nc) /\ NcDiff(nc) = 0)

C21_Witness ==
    /\ pc = "audited"
    /\ \E i \in 1..Len(report.node_counts) :
          LET nc == report.node_counts[i]
          IN /\ nc.pg_count = MaxCount \div 2
             /\ nc.neo4j_count = nc.pg_count + 5
             /\ NcDiffPct(nc)[1] * nc.pg_count = 5 * 100 * NcDiffPct(nc)[2]
             /\ ~NcMatch(nc)
             /\ NcDiff(nc) = 5

-----------------------------------------------------------------------------
(* Fuzzy equality *)

\* the difference of two values is below 1e-6: both are numbers and differ
\* by less than the tolerance
DifferenceBelowTolerance(a, b) ==
    /\ ~PyFloatRaises(a) /\ ~PyFloatRaises(b)
    /\ Abs(PyFloat(a) - PyFloat(b)) < Tolerance

TrimmedEqual(a, b) == Strip(PyStr(a)) = Strip(PyStr(b))

\* C22 as stated: true for two nulls, false for one null; when either value is
\* numeric, true exactly when the difference is below 1e-6; otherwise true
\* exactly when the trimmed string forms are equal; symmetric.
C22_AsStated ==
    Returned("_values_match") =>
        LET a == engine.args[1]
            b == engine.args[2]
        IN /\ report = values_match(b, a)
           /\ IF a = PyNone /\ b = PyNone THEN report = TRUE
              ELSE IF a = PyNone \/ b = PyNone THEN report = FALSE
              ELSE IF IsIntOrFloat(a) \/ IsIntOrFloat(b)
                   THEN report = DifferenceBelowTolerance(a, b)
              ELSE report = TrimmedEqual(a, b)

\* C22: _values_match is true for two nulls and false for one null; when
\* either value is an int, a float or a bool and both convert to float, it is
\* true exactly when the difference is below 1e-6; in every other case it is
\* true exactly when the trimmed string forms are equal; the result does not
\* depend on the order of the arguments.
C22_ValuesMatch ==
    Returned("_values_match") =>
        LET a == engine.args[1]
            b == engine.args[2]
            both == ~PyFloatRaises(a) /\ ~PyFloatRaises(b)
        IN /\ report = values_match(b, a)
           /\ IF a = PyNone /\ b = PyNone THEN report = TRUE
              ELSE IF a = PyNone \/ b = PyNone THEN report = FALSE
              ELSE IF (IsIntOrFloat(a) \/ IsIntOrFloat(b)) /\ both
                   THEN report = DifferenceBelowTolerance(a, b)
              ELSE report = TrimmedEqual(a, b)

\* (10.0000001, 10) matched
C22_Witness ==
    /\ Returned("_values_match")
    /\ engine.args = <<PyFloatV(<<"1","0",".","0","0","0","0","0","0","1">>), PyInt(10)>>
    /\ report = TRUE

-----------------------------------------------------------------------------
(* Foreign-key relationships *)

\* the nodes of a label that were written from the source row with this key
NodesOfKey(label, key, v) ==
    {n \in 1..Len(target.nodes) :
        /\ target.nodes[n].label = label
        /\ Get(target.nodes[n].props, key) = Clean(v)}

\* the (from node, to node) pairs the rows of housing_projects reference:
\* postcode is not null and is the zipcode of a row of zipcodes
ReferencedPairs ==
    UNION {NodesOfKey(<<"H","o","u","s","i","n","g","P","r","o","j","e","c","t">>, <<"p","r","o","j","e","c","t","_","i","d">>, r[<<"p","r","o","j","e","c","t","_","i","d">>])
               \X NodesOfKey(<<"Z","i","p","C","o","d","e">>, <<"z","i","p","c","o","d","e">>, r[<<"p","o","s","t","c","o","d","e">>]) :
           r \in {x \in Range(db[ProjTable].rows) : x[<<"p","o","s","t","c","o","d","e">>] # Null}}

EdgesOfType(type) == {i \in 1..Len(target.edges) : target.edges[i].type = type}

\* C23: when the migration has completed, the LOCATED_IN edges are exactly
\* one directed edge from the project node to the zipcode node for every row
\* of housing_projects whose postcode is the key of a zipcodes node, whatever
\* the type of the key column.
C23_FkEdgesForEveryKeyType ==
    pc = "done" =>
        /\ \A p \in ReferencedPairs :
              Cardinality({i \in EdgesOfType(<<"L","O","C","A","T","E","D","_","I","N">>) :
                              target.edges[i].from = p[1] /\ target.edges[i].to = p[2]}) = 1
        /\ \A i \in EdgesOfType(<<"L","O","C","A","T","E","D","_","I","N">>) :
              <<target.edges[i].from, target.edges[i].to>> \in ReferencedPairs

\* the same for text and integer keys only
FkEdgesForTextAndIntegerKeys ==
    db[ZipTable].types[<<"z","i","p","c","o","d","e">>] # "date" => C23_FkEdgesForEveryKeyType

-----------------------------------------------------------------------------
(* Computed relationships *)

EdgesBetween(type, a, b) ==
    {i \in EdgesOfType(type) : target.edges[i].from = a /\ target.edges[i].to = b}

\* the edge runs from the node of a row's from_id to the node of its to_id
FollowsRow(rel, e) ==
    \E r \in Range(ComputedRows(rel)) :
        /\ e.from \in NodesOfKey(rel.from_label, <<"z","i","p","c","o","d","e">>, r.from_id)
        /\ e.to \in NodesOfKey(rel.to_label, <<"z","i","p","c","o","d","e">>, r.to_id)

\* C24: a bidirectional computed relationship never has more than one edge
\* of its type between two nodes, in either direction, also when the query
\* returns both (a, b) and (b, a) and when the step runs again; a directed
\* one has every edge running from its row's from_id node to its to_id node
\* and never more than one edge per ordered pair.
C24_OneEdgePerPair ==
    \A k \in 1..Len(schema.relationships) :
        LET rel == schema.relationships[k]
            N == 1..Len(target.nodes)
        IN IF rel.bidirectional
           THEN \A a, b \in N :
                   Cardinality(EdgesBetween(rel.type, a, b)
                               \cup EdgesBetween(rel.type, b, a)) <= 1
           ELSE /\ \A a, b \in N : Cardinality(EdgesBetween(rel.type, a, b)) <= 1
                /\ \A i \in EdgesOfType(rel.type) :
                      \E j \in 1..Len(schema.relationships) :
                          /\ schema.relationships[j].type = rel.type
                          /\ FollowsRow(schema.relationships[j], target.edges[i])

\* a second run over a query that returned both orders left one edge
C24_Witness ==
    /\ RerunDone
    /\ schema.relationships[1].bidirectional
    /\ schema.relationships[1].computation_query[1] = "NEAR"
    /\ Len(QueryRows(schema.relationships[1].computation_query)) >= 2
    /\ Cardinality(EdgesOfType(<<"N","E","I","G","H","B","O","R","S">>)) = 1

\* the directed relationship over the same query has both edges
DirectedBothEdges ==
    /\ pc = "done"
    /\ ~schema.relationships[1].bidirectional
    /\ schema.relationships[1].computation_query[1] = "NEAR"
    /\ Cardinality(EdgesOfType(<<"N","E","I","G","H","B","O","R","S">>)) = 2

-----------------------------------------------------------------------------
(* Table types in the generated schema *)

NodeOfTable(t) == \E i \in 1..Len(schema.nodes) : schema.nodes[i].source_table = t.name

\* the generation ran on the classified tables
GenerationEnded == pc \in {"ready", "gen_failed"}

\* a JUNCTION table is in the generated schema as a relationship and not as
\* a node type
JunctionIsRelationship ==
    GenerationEnded =>
        \A i \in 1..Len(engine.tables) :
            engine.tables[i].table_type = "JUNCTION" =>
                /\ pc = "ready"
                /\ ~NodeOfTable(engine.tables[i])
                /\ \E k \in 1..Len(schema.relationships) :
                      schema.relationships[k].source_table = engine.tables[i].name

\* only ENTITY tables are node types
OnlyEntitiesAreNodes ==
    GenerationEnded =>
        \A i \in 1..Len(engine.tables) :
            NodeOfTable(engine.tables[i]) => engine.tables[i].table_type = "ENTITY"

\* C25: a table classified JUNCTION becomes a relationship of the generated
\* schema and not a node type; only tables classified ENTITY become node types.
C25_JunctionBecomesRelationship == JunctionIsRelationship /\ OnlyEntitiesAreNodes

-----------------------------------------------------------------------------
(* The relationship counts migrate_all returns *)

\* C26: when migrate_all returns, the count it returns for every
\* relationship type is the number of edges of that type in the target.
C26_RelCountsAreEdgesPresent ==
    pc = "done" =>
        \A k \in 1..Len(schema.relationships) :
            /\ schema.relationships[k].type \in DOMAIN rel_counts
            /\ rel_counts[schema.relationships[k].type]
                  = CountType(target.edges, schema.relationships[k].type)

TypeNamesDistinct ==
    \A j, k \in 1..Len(schema.relationships) :
        j # k => schema.relationships[j].type # schema.relationships[k].type

\* the same for a run that started without edges, over distinct type names
FirstRunRelCounts ==
    (snap.edges = <<>> /\ TypeNamesDistinct) => C26_RelCountsAreEdgesPresent

-----------------------------------------------------------------------------
(* Several merge keys *)

\* the rows of a node's table differ pairwise in at least one merge-key
\* value, and none of them is null
MergeKeysDiffer(node) ==
    LET rows == NodeRows(node)
    IN /\ \A i, j \in 1..Len(rows) :
             i # j => \E k \in Range(node.merge_keys) : Get(rows[i], k) # Get(rows[j], k)
       /\ ~MergeNullKey(node.merge_keys, rows)

\* C27: for a node type with several merge keys whose rows differ pairwise
\* in at least one merge-key value, the migration raises no constraint
\* error, and when its step is over the target holds one node per row.
C27_CompositeKeyRowsStored ==
    \A i \in 1..Len(schema.nodes) :
        LET node == schema.nodes[i]
        IN (Len(node.merge_keys) > 1 /\ MergeKeysDiffer(node)) =>
              /\ err # "ConstraintError"
              /\ (pc \in {"rel", "done"} /\ err = "") =>
                    CountLabel(target.nodes, node.label) = Len(NodeRows(node))

-----------------------------------------------------------------------------
(* The exported mapping document read back *)

SameProperty(p, q) ==
    /\ p.name = q.name /\ p.type = q.type
    /\ p.source_column = q.source_column /\ p.transformation = q.transformation

SameNode(n, m) ==
    /\ n.label = m.label /\ n.merge_keys = m.merge_keys
    /\ Len(n.properties) = Len(m.properties)
    /\ \A j \in 1..Len(n.properties) : SameProperty(n.properties[j], m.properties[j])

SameRelationship(r, s) ==
    /\ r.type = s.type /\ r.from_label = s.from_label /\ r.to_label = s.to_label
    /\ r.source_type = s.source_type
    /\ r.from_column = s.from_column /\ r.to_column = s.to_column
    /\ r.from_id_column = s.from_id_column /\ r.to_id_column = s.to_id_column
    /\ r.computation_query = s.computation_query /\ r.bidirectional = s.bidirectional

SameSchema(g, h) ==
    /\ Len(g.nodes) = Len(h.nodes)
    /\ \A i \in 1..Len(g.nodes) : SameNode(g.nodes[i], h.nodes[i])
    /\ Len(g.relationships) = Len(h.relationships)
    /\ \A i \in 1..Len(g.relationships) : SameRelationship(g.relationships[i], h.relationships[i])

\* C28: the document export_yaml_config writes is loaded without error, and
\* the loaded schema has the labels, merge keys, properties and relationships
\* of the exported one.
C28_ExportReadBack ==
    /\ pc # "load_failed"
    /\ pc = "loaded" => SameSchema(schema, report)

\* the same for the schemas without a foreign-key relationship
ExportReadBackWithoutFk ==
    (\A i \in 1..Len(schema.relationships) : schema.relationships[i].source_type # "FK")
        => C28_ExportReadBack

-----------------------------------------------------------------------------
(* Written values against the sample comparison *)

\* the audit ran on a target that a completed migration left
AuditedAfterCompleteRun == pc = "audited" /\ err = ""

\* C29: after a complete migration of an unmodified source, the sample check
\* of every label reports matched = checked: every value written for a
\* directly mapped column is judged equal to its source value.
C29_WrittenValuesMatch ==
    AuditedAfterCompleteRun =>
        \A i \in 1..Len(report.sample_checks) :
            report.sample_checks[i].matched = report.sample_checks[i].checked

\* the same for every column type but timestamp
WrittenValuesMatchExceptTimestamp ==
    db[ProjTable].types[<<"c","r","e","a","t","e","d","_","a","t">>] # "ts" => C29_WrittenValuesMatch

\* rows of every other type were checked and matched
TypedRowsChecked ==
    /\ AuditedAfterCompleteRun
    /\ db[ProjTable].types[<<"c","r","e","a","t","e","d","_","a","t">>] = "bool"
    /\ \E i \in 1..Len(report.sample_checks) :
          /\ report.sample_checks[i].label = <<"H","o","u","s","i","n","g","P","r","o","j","e","c","t">>
          /\ report.sample_checks[i].checked = MaxRows
          /\ report.sample_checks[i].matched = MaxRows

-----------------------------------------------------------------------------
(* Sampled keys that could not be checked *)

\* a sampled key had no source row, or no sampled key of the label was checked
SampleUnchecked(sc) == sc.missing_in_neo4j > 0 \/ sc.checked = 0

\* C30: when a sampled key has no row in the source table, or no sampled key
\* of a label was checked, the report has an issue and its status is not PASS.
C30_UncheckedSamplesReported ==
    (pc = "audited" /\ \E i \in 1..Len(report.sample_checks) :
                           SampleUnchecked(report.sample_checks[i]))
        => /\ report.issues # <<>>
           /\ OverallStatus(report.issues) # "PASS"

====
